---- MODULE Spec2Model ----
(***************************************************************************)
(* State-machine model of the quota-aware ingestion scheduler of           *)
(* livealpha: RateLimitManager (rate windows, request queue, drain loop),  *)
(* TweetCache, TwitterService.fetchLatestTweets and the TrackerService     *)
(* sync / backfill loops.                                                  *)
(*                                                                         *)
(* Time is counted in ticks.  One rate-limit window is WindowMs ticks; the *)
(* 50 ms politeness delay and the 1000 ms throttle backoff are shorter     *)
(* than a tick, so a sleep of that length is a point where the clock may   *)
(* or may not advance.                                                     *)
(***************************************************************************)
EXTENDS Integers, Sequences, FiniteSets, TLC

VARIABLES
    now,                \* Date.now(), in ticks
    storageUp,          \* TRUE while the database answers pool.execute
    tableExists,        \* TRUE once table rate_limits exists
    usage,              \* table rate_limits: key -> window_start -> requests_count
    rateLimitCache,     \* RateLimitManager.rateLimitCache
    requestQueue,       \* RateLimitManager.requestQueue
    isProcessingQueue,  \* RateLimitManager.isProcessingQueue
    pc,                 \* position of the processQueue loop
    request,            \* the request processQueue has shifted off the queue
    wakeAt,             \* time at which the loop's setTimeout fires
    promise,            \* state of the promise queueRequest returned, per request id
    throttled,          \* number of 429 responses so far (history)
    startedOverLimit,   \* some closure started while its key's count was at the limit (history)
    cache,              \* TweetCache.cache: username -> tweets array
    lastFetch,          \* TweetCache.lastFetch: username -> timestamp
    written,            \* the last cacheTweets call, while nothing else touched its entry (history)
    userCache,          \* TwitterService.userCache: username -> expiresAt
    fetch,              \* the fetchLatestTweets call of each caller: position and locals
    syncPromise,        \* TrackerService.syncPromise: 0, or the pass whose promise it holds
    syncLoop,           \* the loop of each syncLatestTweets pass: position and index
    accountSync,        \* TrackerService.accountSync: username -> lastSyncMs
    syncCall,           \* per caller of syncLatestTweets: the pass it awaits or was answered by
    syncFetches,        \* fetchLatestTweets calls per pass and username (history)
    isRunning,          \* TrackerService.isRunning
    backfillState,      \* TrackerService.backfillState
    session,            \* the runSmartBackfill call: position and locals
    stream,             \* the setupRealTimeStream call: position, locals, calls made (history)
    poll,               \* setupPollingFallback: the fetchNewTweets cycle and pollingInterval
    emitted,            \* times fetchNewTweets emitted each tweet as new: username -> id -> count (history)
    chains              \* the backfill timer chains, one per start(), and this.backfillTimeout

schedVars == <<now, storageUp, tableExists, usage, rateLimitCache, requestQueue, isProcessingQueue,
               pc, request, wakeAt, promise, throttled, startedOverLimit>>

cacheVars == <<cache, lastFetch, written>>
fetchVars == <<userCache, fetch>>
syncVars == <<syncPromise, syncLoop, accountSync, syncCall, syncFetches>>
backfillVars == <<isRunning, backfillState, session>>

trackerVars == <<stream, poll, emitted, chains>>

\* everything outside RateLimitManager
callerVars == <<cacheVars, fetchVars, syncVars, backfillVars, trackerVars>>

vars == <<schedVars, callerVars>>

---------------------------------------------------------------------------
(* Bounds of the model *)

MaxRequests == 2          \* queueRequest calls in one run of Spec
MaxOrderRequests == 3     \* queueRequest calls in one run of SpecOrder
MaxTime == 3              \* the clock stops here unless a sleeper still waits
MaxThrottles == 1         \* 429 responses in one run
MaxCacheRequests == 3     \* queueRequest calls in one run of SpecCache
MaxFetchRequests == 4     \* queueRequest calls in one run of SpecSync
MaxSyncCalls == 3         \* syncLatestTweets calls in one run
MaxBackfillBudget == 7    \* largest request budget of a backfill session
MaxBackfillRequests == 5  \* queueRequest calls in one run of SpecBackfill
MaxPollRequests == 5      \* queueRequest calls in one run of SpecPoll
MaxPollCycles == 3        \* fetchNewTweets calls in one run of SpecPoll
EmitCap == 2              \* emissions counted per tweet
MaxEntryTime == 6         \* the clock of SpecCleanup stops here
MaxStarts == 2            \* start() calls in one run of SpecChain
MaxChainSessions == 2     \* backfill sessions of one timer chain

(* Scaled program constants *)
LimitRequests == 1        \* limits.userTimeline.requests
LookupRequests == LimitRequests + 1   \* limits.userLookup.requests, the larger quota
WindowMs == 2             \* limits[endpoint].windowMs, in ticks
CACHE_DURATION == 2       \* TweetCache.CACHE_DURATION (5 min), in ticks
RetentionMs == 3          \* the 24 hours of cacheTweets and addNewTweet, in ticks
MAX_TWEETS_PER_ACCOUNT == 2   \* TweetCache.MAX_TWEETS_PER_ACCOUNT (50)
USER_CACHE_TTL_MS == 4    \* TwitterService.USER_CACHE_TTL_MS (12 h), in ticks
minSyncIntervalMs == 1    \* TrackerService.minSyncIntervalMs (45 s), in ticks

Priorities == {1, 2, 3}   \* getUserId and backfill use 1, fresh fetches 3
MaxPriority == CHOOSE p \in Priorities : \A q \in Priorities : q <= p
Endpoints == {"userLookup", "userTimeline"}
SchedEndpoints == {"userTimeline"}   \* the endpoint of the requests Spec, SpecOrder and FairSpec enqueue
Accounts == {"a1", "a2"}
NoAccount == "null"
CacheAccounts == {"a1"}   \* the account the fetches of SpecCache are for
NoRequest == [id |-> 0]

Max(a, b) == IF a >= b THEN a ELSE b
Min(a, b) == IF a <= b THEN a ELSE b

\* this.limits = this.rateLimits[this.currentPlan]
limits ==
    [e \in Endpoints |->
        [requests |-> IF e = "userLookup" THEN LookupRequests ELSE LimitRequests,
         windowMs |-> WindowMs]]

\* const key = accountId ? `${endpoint}_${accountId}` : endpoint
Key(endpoint, accountId) ==
    IF accountId = NoAccount THEN <<endpoint>> ELSE <<endpoint, accountId>>

Keys == {Key(e, a) : e \in Endpoints, a \in Accounts \cup {NoAccount}}

\* (mutant) the window is computed once and never rolls over
WindowStartFixed(t, windowMs) == 0

\* Math.floor(now / limit.windowMs) * limit.windowMs
WindowStart(t, windowMs) == (t \div windowMs) * windowMs

\* a sleeper waiting for a window reset may carry the clock past MaxTime
LastTime ==
    MaxTime
      + (MaxCacheRequests + MaxOrderRequests + MaxFetchRequests + MaxBackfillRequests + MaxThrottles + 1) * WindowMs
WindowStarts == {w \in 0..LastTime : w % WindowMs = 0}

NoEntry == [present |-> FALSE]

(* Provider headers of a response.  A field value 0 stands for a header that *)
(* is "0", missing or unparsable: parseInt(...) || null maps all three to    *)
(* null.  reset is counted in ticks.                                         *)
NoHeaders == [present |-> FALSE]
ProviderLimit == LimitRequests + 1
HeaderChoices(t) ==
    {NoHeaders} \cup
    {[present |-> TRUE, remaining |-> r, reset |-> WindowStart(t, WindowMs) + WindowMs,
      limit |-> ProviderLimit] : r \in 0..1}

---------------------------------------------------------------------------
(* RateLimitManager: admission and recording *)

\* getCurrentUsage when the database answers: rows.length > 0 ? rows[0] : { count: 0 },
\* and { count: 0 } after createRateLimitTable when the table did not exist
getCurrentUsage(key, windowStart) ==
    IF tableExists THEN usage[key][windowStart] ELSE 0

\* (mutant) the catch of canMakeRequest lets the request pass
canMakeRequestFailOpen(endpoint, accountId) ==
    \/ ~storageUp
    \/ limits[endpoint].requests
         - getCurrentUsage(Key(endpoint, accountId), WindowStart(now, limits[endpoint].windowMs)) > 0

\* canMakeRequest, its return value: remaining > 0, and false when the read throws
canMakeRequest(endpoint, accountId) ==
    /\ storageUp
    /\ limits[endpoint].requests
         - getCurrentUsage(Key(endpoint, accountId), WindowStart(now, limits[endpoint].windowMs)) > 0

\* canMakeRequest, its side effect: this.rateLimitCache.set(key, {...}) unless the read throws
cacheAfterCanMakeRequest(endpoint, accountId) ==
    LET key == Key(endpoint, accountId)
        windowStart == WindowStart(now, limits[endpoint].windowMs)
        count == getCurrentUsage(key, windowStart)
    IN  IF storageUp
        THEN [rateLimitCache EXCEPT ![key] =
                 [present |-> TRUE, windowStart |-> windowStart, count |-> count,
                  limit |-> limits[endpoint].requests,
                  remaining |-> limits[endpoint].requests - count,
                  resetTime |-> windowStart + limits[endpoint].windowMs]]
        ELSE rateLimitCache

\* getWaitTime on given cache entries
getWaitTime(entries, endpoint, accountId) ==
    LET cached == entries[Key(endpoint, accountId)]
    IN  IF ~cached.present \/ cached.remaining > 0
        THEN 0
        ELSE Max(0, cached.resetTime - now)

\* updateFromTwitterHeaders on one cache entry
updateFromTwitterHeaders(cached, headers) ==
    IF headers.remaining # 0 /\ headers.reset # 0 /\ cached.present
    THEN [cached EXCEPT !.remaining = headers.remaining,
                        !.resetTime = headers.reset,
                        !.limit = IF headers.limit # 0 THEN headers.limit ELSE @]
    ELSE cached

\* incrementUsage: INSERT ... ON DUPLICATE KEY UPDATE requests_count = requests_count + 1
incrementUsage(key, windowStart) ==
    [usage EXCEPT ![key][windowStart] = @ + 1]

\* recordRequest, the cache part (runs only when incrementUsage did not throw)
cacheAfterRecordRequest(endpoint, accountId, headers) ==
    LET key == Key(endpoint, accountId)
        windowStart == WindowStart(now, limits[endpoint].windowMs)
        cached == rateLimitCache[key]
        counted == IF cached.present /\ cached.windowStart = windowStart
                   THEN [cached EXCEPT !.count = @ + 1,
                                       !.remaining = Max(0, limits[endpoint].requests - (cached.count + 1))]
                   ELSE cached
    IN  [rateLimitCache EXCEPT ![key] =
            IF headers.present THEN updateFromTwitterHeaders(counted, headers) ELSE counted]

\* recordRequest: both updates, or neither when incrementUsage throws (the
\* database does not answer, or the table does not exist); the catch only logs
recordRequest(endpoint, accountId, headers) ==
    IF storageUp /\ tableExists
    THEN /\ usage' = incrementUsage(Key(endpoint, accountId),
                                    WindowStart(now, limits[endpoint].windowMs))
         /\ rateLimitCache' = cacheAfterRecordRequest(endpoint, accountId, headers)
    ELSE UNCHANGED <<usage, rateLimitCache>>

---------------------------------------------------------------------------
(* RateLimitManager: the queue and the drain loop *)

RECURSIVE ByPriority(_, _)
\* the requests of q of priority p, p-1, ..., 0, each band in the order of q
ByPriority(q, p) ==
    IF p < 0 THEN <<>>
    ELSE SelectSeq(q, LAMBDA r : r.priority = p) \o ByPriority(q, p - 1)

\* (mutant) the push without the sort
SortQueueNone(q) == q

\* this.requestQueue.sort((a, b) => b.priority - a.priority), a stable sort
SortQueue(q) == ByPriority(q, MaxPriority)

\* (mutant) the throttled request is not put back
UnshiftLost(q, r) == q

\* this.requestQueue.unshift(request)
Unshift(q, r) == <<r>> \o q

\* resolve(result) or reject(error) on the promise of request id; a promise settles once
Settle(id, outcome) ==
    [promise EXCEPT ![id] = IF @ = "pending" THEN outcome ELSE "settledTwice"]

\* (mutant) the loop runs without raising its flag
LoopHeadNoFlag(q) ==
    IF q # <<>>
    THEN /\ request' = Head(q)
         /\ requestQueue' = Tail(q)
         /\ isProcessingQueue' = FALSE
         /\ pc' = "admit"
    ELSE /\ request' = NoRequest
         /\ requestQueue' = q
         /\ isProcessingQueue' = FALSE
         /\ pc' = "idle"

\* (mutant) the loop reads the head of the queue and leaves it there
LoopHeadPeek(q) ==
    IF q # <<>>
    THEN /\ request' = Head(q)
         /\ requestQueue' = q
         /\ isProcessingQueue' = TRUE
         /\ pc' = "admit"
    ELSE /\ request' = NoRequest
         /\ requestQueue' = q
         /\ isProcessingQueue' = FALSE
         /\ pc' = "idle"

\* the head of the while loop: shift the next request, or leave the loop
LoopHead(q) ==
    IF q # <<>>
    THEN /\ request' = Head(q)
         /\ requestQueue' = Tail(q)
         /\ isProcessingQueue' = TRUE
         /\ pc' = "admit"
    ELSE /\ request' = NoRequest
         /\ requestQueue' = q
         /\ isProcessingQueue' = FALSE
         /\ pc' = "idle"

\* const result = await requestFn(): the closure starts
StartClosure ==
    LET windowStart == WindowStart(now, limits[request.endpoint].windowMs)
    IN  /\ pc' = "exec"
        /\ startedOverLimit' =
              (startedOverLimit \/
               usage[Key(request.endpoint, request.accountId)][windowStart]
                  >= limits[request.endpoint].requests)

\* (mutant) queueRequest only pushes and sorts; it never calls processQueue
queueRequestNoStart(endpoint, priority, accountId) ==
    /\ LET id == Len(promise) + 1
           new == [id |-> id, endpoint |-> endpoint, accountId |-> accountId,
                   priority |-> priority]
       IN  /\ promise' = Append(promise, "pending")
           /\ requestQueue' = SortQueue(Append(requestQueue, new))
           /\ UNCHANGED <<isProcessingQueue, pc, request>>
    /\ UNCHANGED <<now, storageUp, tableExists, usage, rateLimitCache, wakeAt, throttled, startedOverLimit>>

\* queueRequest(requestFn, endpoint, priority, accountId)
queueRequest(endpoint, priority, accountId) ==
    /\ LET id == Len(promise) + 1
           new == [id |-> id, endpoint |-> endpoint, accountId |-> accountId,
                   priority |-> priority]
           q == SortQueue(Append(requestQueue, new))
       IN  /\ promise' = Append(promise, "pending")
           /\ IF ~isProcessingQueue
              THEN LoopHead(q)                 \* processQueue() runs up to its first await
              ELSE /\ requestQueue' = q
                   /\ UNCHANGED <<isProcessingQueue, pc, request>>
    /\ UNCHANGED <<now, storageUp, tableExists, usage, rateLimitCache, wakeAt, throttled, startedOverLimit>>

\* (mutant) a request that is not admitted is rejected instead of held
AdmitRejects ==
    /\ pc = "admit"
    /\ LET canProceed == canMakeRequest(request.endpoint, request.accountId)
       IN  /\ rateLimitCache' = cacheAfterCanMakeRequest(request.endpoint, request.accountId)
           /\ IF ~canProceed
              THEN /\ pc' = "pause"
                   /\ promise' = Settle(request.id, "rejected")
                   /\ UNCHANGED startedOverLimit
              ELSE /\ StartClosure
                   /\ UNCHANGED promise
    /\ tableExists' = (tableExists \/ storageUp)
    /\ UNCHANGED <<now, storageUp, usage, requestQueue, isProcessingQueue, request,
                   wakeAt, throttled>>
    /\ UNCHANGED callerVars

\* processQueue: await canMakeRequest, then wait or start the closure
Admit ==
    /\ pc = "admit"
    /\ LET canProceed == canMakeRequest(request.endpoint, request.accountId)
           entries == cacheAfterCanMakeRequest(request.endpoint, request.accountId)
           waitTime == getWaitTime(entries, request.endpoint, request.accountId)
       IN  /\ rateLimitCache' = entries
           /\ IF ~canProceed /\ waitTime > 0
              THEN /\ pc' = "wait"
                   /\ wakeAt' = now + waitTime
                   /\ UNCHANGED startedOverLimit
              ELSE /\ StartClosure
                   /\ UNCHANGED wakeAt
    /\ tableExists' = (tableExists \/ storageUp)   \* getCurrentUsage: createRateLimitTable
    /\ UNCHANGED <<now, storageUp, usage, requestQueue, isProcessingQueue, request,
                   promise, throttled>>
    /\ UNCHANGED callerVars

\* processQueue: the setTimeout(resolve, waitTime) fires and the closure starts
Wake ==
    /\ pc = "wait"
    /\ now >= wakeAt
    /\ StartClosure
    /\ wakeAt' = 0
    /\ UNCHANGED <<now, storageUp, tableExists, usage, rateLimitCache, requestQueue, isProcessingQueue,
                   request, promise, throttled>>
    /\ UNCHANGED callerVars

\* processQueue: the closure returns; recordRequest, resolve, then the 50 ms delay
CompleteOk(headers) ==
    /\ pc = "exec"
    /\ recordRequest(request.endpoint, request.accountId, headers)
    /\ promise' = Settle(request.id, "resolved")
    /\ pc' = "pause"
    /\ UNCHANGED <<now, storageUp, tableExists, requestQueue, isProcessingQueue, request, wakeAt, throttled, startedOverLimit>>
    /\ UNCHANGED callerVars

\* processQueue, catch: error.status === 429; lower the priority, unshift, back off 1 s
CompleteThrottled ==
    /\ pc = "exec"
    /\ throttled < MaxThrottles
    /\ throttled' = throttled + 1
    /\ LET retry == [request EXCEPT !.priority = Max(0, @ - 1)]
       IN  /\ request' = retry
           /\ requestQueue' = Unshift(requestQueue, retry)
    /\ pc' = "pause"
    /\ UNCHANGED <<now, storageUp, tableExists, usage, rateLimitCache, isProcessingQueue, wakeAt,
                   promise, startedOverLimit>>
    /\ UNCHANGED callerVars

\* the same branch when the provider answers 429 again and again: the count of
\* the responses (history) stays at MaxThrottles once it is there
CompleteThrottledAgain ==
    /\ pc = "exec"
    /\ throttled' = Min(throttled + 1, MaxThrottles)
    /\ LET retry == [request EXCEPT !.priority = Max(0, @ - 1)]
       IN  /\ request' = retry
           /\ requestQueue' = Unshift(requestQueue, retry)
    /\ pc' = "pause"
    /\ UNCHANGED <<now, storageUp, tableExists, usage, rateLimitCache, isProcessingQueue, wakeAt,
                   promise, startedOverLimit>>
    /\ UNCHANGED callerVars

\* (mutant) every failed request is put back, as a throttled one is
CompleteErrorRequeue ==
    /\ pc = "exec"
    /\ promise' = Settle(request.id, "rejected")
    /\ requestQueue' = Unshift(requestQueue, request)
    /\ pc' = "pause"
    /\ UNCHANGED <<now, storageUp, tableExists, usage, rateLimitCache, isProcessingQueue,
                   request, wakeAt, throttled, startedOverLimit>>
    /\ UNCHANGED callerVars

\* processQueue, catch: any other error; reject, and the while loop goes on at once
CompleteError ==
    /\ pc = "exec"
    /\ promise' = Settle(request.id, "rejected")
    /\ LoopHead(requestQueue)
    /\ UNCHANGED <<now, storageUp, tableExists, usage, rateLimitCache, wakeAt, throttled, startedOverLimit>>
    /\ UNCHANGED callerVars

\* processQueue: the 50 ms delay or the 1 s backoff is over; back to the while test
Resume ==
    /\ pc = "pause"
    /\ LoopHead(requestQueue)
    /\ UNCHANGED <<now, storageUp, tableExists, usage, rateLimitCache, wakeAt, promise, throttled, startedOverLimit>>
    /\ UNCHANGED callerVars

\* the clock, which stops at `last` unless a sleeper still waits
TickUntil(last) ==
    /\ now < last \/ (pc = "wait" /\ now < wakeAt)
    /\ now' = now + 1
    /\ UNCHANGED <<storageUp, tableExists, usage, rateLimitCache, requestQueue, isProcessingQueue, pc,
                   request, wakeAt, promise, throttled, startedOverLimit>>
    /\ UNCHANGED callerVars

Tick == TickUntil(MaxTime)

\* the database stops or resumes answering
StorageFlip ==
    /\ storageUp' = ~storageUp
    /\ UNCHANGED <<now, tableExists, usage, rateLimitCache, requestQueue, isProcessingQueue, pc,
                   request, wakeAt, promise, throttled, startedOverLimit>>
    /\ UNCHANGED callerVars

---------------------------------------------------------------------------
(* Tweets.  A tweet is its id and its creation time; the provider answers a  *)
(* fetch at time t with tweets of distinct ids, none created after t, some   *)
(* of them older than the retention of the cache.                            *)

NoId == 0
TweetIds == {1, 2}
Ages == {0, 1, RetentionMs}
Tweets(t) == [id : TweetIds, created_at : {t - a : a \in Ages}]

\* the stream delivers a tweet as it is posted
StreamTweets(t) == {[id |-> 1, created_at |-> t]}

\* distinct tweets, listed by id (their creation times in any order)
DistinctIds(s) == \A i, j \in DOMAIN s : i < j => s[i].id < s[j].id

\* the lists of tweets the provider may answer with at time t
ItemLists(t) ==
    {<<>>} \cup {<<a>> : a \in Tweets(t)}
           \cup {s \in {<<a, b>> : a, b \in Tweets(t)} : DistinctIds(s)}

\* the answers of the provider in the runs of the sync and backfill loops
FewItemLists(t) ==
    {<<>>, <<[id |-> 1, created_at |-> t]>>, <<[id |-> 2, created_at |-> t]>>}


---------------------------------------------------------------------------
(* TweetCache *)

NoTweets == [has |-> FALSE, tweets |-> <<>>]
NoFetch == -1
NoWrite == [username |-> NoAccount, tweets |-> <<>>, at |-> 0]
Miss == [hit |-> FALSE, tweets |-> <<>>]

\* (mutant) getCachedTweets without the test of the age
getCachedTweetsAnyAge(username) ==
    IF cache[username].has
    THEN [hit |-> TRUE, tweets |-> cache[username].tweets]
    ELSE Miss

\* getCachedTweets(username): the tweets array, or null on a miss
getCachedTweets(username) ==
    LET last == IF lastFetch[username] = NoFetch THEN 0 ELSE lastFetch[username]
        cacheAge == now - last
    IN  IF cacheAge < CACHE_DURATION /\ cache[username].has
        THEN [hit |-> TRUE, tweets |-> cache[username].tweets]
        ELSE Miss

\* .filter(tweet => new Date(tweet.created_at) > twentyFourHoursAgo)
Within24h(tweets, t) == SelectSeq(tweets, LAMBDA tw : tw.created_at > t - RetentionMs)

RECURSIVE SortNewestFirst(_)
\* .sort((a, b) => new Date(b.created_at) - new Date(a.created_at)), a stable sort
SortNewestFirst(tweets) ==
    IF tweets = <<>> THEN <<>>
    ELSE LET newest == CHOOSE c \in {tweets[i].created_at : i \in DOMAIN tweets} :
                           \A i \in DOMAIN tweets : tweets[i].created_at <= c
         IN  SelectSeq(tweets, LAMBDA tw : tw.created_at = newest)
               \o SortNewestFirst(SelectSeq(tweets, LAMBDA tw : tw.created_at # newest))

\* (mutant) the whole array, without the cut
SliceAll(tweets) == tweets

\* .slice(0, this.MAX_TWEETS_PER_ACCOUNT)
Slice(tweets) == SubSeq(tweets, 1, Min(Len(tweets), MAX_TWEETS_PER_ACCOUNT))

\* cacheTweets: the array it stores
freshTweets(tweets, t) == Slice(SortNewestFirst(Within24h(tweets, t)))

\* cacheTweets(username, tweets)
cacheTweets(username, tweets) ==
    /\ IF tweets = <<>>
       THEN UNCHANGED <<cache, lastFetch>>
       ELSE /\ cache' = [cache EXCEPT ![username] =
                            [has |-> TRUE, tweets |-> freshTweets(tweets, now)]]
            /\ lastFetch' = [lastFetch EXCEPT ![username] = now]
    /\ written' = [username |-> username, tweets |-> tweets, at |-> now]

\* (mutant) addNewTweet without the test for a tweet it already has
addNewTweetNoCheck(username, tweet) ==
    /\ cache' = [cache EXCEPT ![username] =
                    [has |-> TRUE,
                     tweets |-> Slice(Within24h(<<tweet>> \o cache[username].tweets, now))]]
    /\ lastFetch' = [lastFetch EXCEPT ![username] = now]
    /\ written' = IF written.username = username THEN NoWrite ELSE written

\* addNewTweet(username, tweet)
addNewTweet(username, tweet) ==
    LET cachedTweets == cache[username].tweets       \* this.cache.get(username) || []
    IN  IF \E i \in DOMAIN cachedTweets : cachedTweets[i].id = tweet.id
        THEN UNCHANGED <<cache, lastFetch, written>>
        ELSE /\ cache' = [cache EXCEPT ![username] =
                             [has |-> TRUE,
                              tweets |-> Slice(Within24h(<<tweet>> \o cachedTweets, now))]]
             /\ lastFetch' = [lastFetch EXCEPT ![username] = now]
             /\ written' = IF written.username = username THEN NoWrite ELSE written

\* the stream handler merges a tweet of username as it arrives
AddNewTweet(username, tweet) ==
    /\ addNewTweet(username, tweet)
    /\ UNCHANGED <<schedVars, fetchVars, syncVars, backfillVars, trackerVars>>

\* a call of cacheTweets(username, tweets) by itself
CacheTweets(username, tweets) ==
    /\ cacheTweets(username, tweets)
    /\ UNCHANGED <<schedVars, fetchVars, syncVars, backfillVars, trackerVars>>

\* (mutant) cleanup after one CACHE_DURATION
cleanupEarly ==
    LET old(u) == lastFetch[u] # NoFetch /\ now - lastFetch[u] > CACHE_DURATION
    IN  /\ cache' = [u \in Accounts |-> IF old(u) THEN NoTweets ELSE cache[u]]
        /\ lastFetch' = [u \in Accounts |-> IF old(u) THEN NoFetch ELSE lastFetch[u]]
        /\ UNCHANGED written

\* cleanup(): for every entry of lastFetch older than CACHE_DURATION * 2,
\* this.cache.delete(username) and this.lastFetch.delete(username)
cleanup ==
    LET old(u) == lastFetch[u] # NoFetch /\ now - lastFetch[u] > CACHE_DURATION * 2
    IN  /\ cache' = [u \in Accounts |-> IF old(u) THEN NoTweets ELSE cache[u]]
        /\ lastFetch' = [u \in Accounts |-> IF old(u) THEN NoFetch ELSE lastFetch[u]]
        /\ UNCHANGED written

\* a call of cleanup() by itself
Cleanup ==
    /\ cleanup
    /\ UNCHANGED <<schedVars, fetchVars, syncVars, backfillVars, trackerVars>>

\* the tweets handed to the cache in the runs of SpecTweetCache: more ids than
\* an entry keeps, so that the cut to MAX_TWEETS_PER_ACCOUNT happens
EntryIds == {1, 2, 3}
EntryTweets(t) == [id : EntryIds, created_at : {t - a : a \in Ages}]
EntryLists(t) ==
    {<<>>} \cup {<<a>> : a \in EntryTweets(t)}
           \cup {s \in {<<a, b>> : a, b \in EntryTweets(t)} : DistinctIds(s)}
           \cup {s \in {<<a, b, c>> : a, b, c \in EntryTweets(t)} : DistinctIds(s)}

---------------------------------------------------------------------------
(* TwitterService.fetchLatestTweets and getUserId.  A call is a process: it  *)
(* awaits the promise of the lookup it enqueued, then the promise of the      *)
(* timeline request, and returns to its caller.                               *)

Direct == <<"direct", 0>>
Backfill == <<"backfill", 0>>
SyncPass(p) == <<"sync", p>>
Poll(c) == <<"poll", c>>
Callers == {Direct, Backfill} \cup {SyncPass(p) : p \in 1..MaxSyncCalls}
                              \cup {Poll(c) : c \in 1..MaxPollCycles}

FetchIdle ==
    [pc |-> "idle", username |-> NoAccount, prioritizeNew |-> FALSE, maxId |-> NoId,
     req |-> 0, result |-> <<>>]

Settled(id) == promise[id] \in {"resolved", "rejected"}

\* return tweets to the caller of fetchLatestTweets
FetchReturns(c, tweets) ==
    fetch' = [fetch EXCEPT ![c].pc = "done", ![c].req = 0, ![c].result = tweets]

\* (mutant) the timeline request is enqueued even on a cache hit
CacheShortCircuitNever(username, prioritizeNew, maxId) == FALSE

\* if (prioritizeNew && !maxId) { cachedTweets = getCachedTweets(username); if (cachedTweets) ...
CacheShortCircuit(username, prioritizeNew, maxId) ==
    prioritizeNew /\ maxId = NoId /\ getCachedTweets(username).hit

\* queueRequest(..., 'userTimeline', prioritizeNew ? 3 : 1, username) and the await
EnqueueTimeline(c, username, prioritizeNew, maxId) ==
    /\ queueRequest("userTimeline", IF prioritizeNew THEN 3 ELSE 1, username)
    /\ fetch' = [fetch EXCEPT ![c] =
                    [pc |-> "timeline", username |-> username,
                     prioritizeNew |-> prioritizeNew, maxId |-> maxId,
                     req |-> Len(promise) + 1, result |-> <<>>]]

\* fetchLatestTweets(username, prioritizeNew, maxId), up to its first await on the scheduler
fetchLatestTweets(c, username, prioritizeNew, maxId) ==
    /\ IF CacheShortCircuit(username, prioritizeNew, maxId)
       THEN /\ fetch' = [fetch EXCEPT ![c] =
                            [pc |-> "done", username |-> username,
                             prioritizeNew |-> prioritizeNew, maxId |-> maxId, req |-> 0,
                             result |-> cache[username].tweets]]
            /\ UNCHANGED schedVars
       ELSE IF userCache[username] > now        \* getUserId: cached && cached.expiresAt > Date.now()
            THEN EnqueueTimeline(c, username, prioritizeNew, maxId)
            ELSE /\ queueRequest("userLookup", 1, username)
                 /\ fetch' = [fetch EXCEPT ![c] =
                                 [pc |-> "lookup", username |-> username,
                                  prioritizeNew |-> prioritizeNew, maxId |-> maxId,
                                  req |-> Len(promise) + 1, result |-> <<>>]]
    /\ UNCHANGED userCache

\* getUserId after its await: null when the lookup failed or found no user, else
\* the id is cached and fetchLatestTweets enqueues the timeline request
FetchLookupDone(c, found) ==
    /\ fetch[c].pc = "lookup"
    /\ Settled(fetch[c].req)
    /\ IF promise[fetch[c].req] = "rejected" \/ ~found
       THEN /\ FetchReturns(c, <<>>)
            /\ UNCHANGED <<schedVars, userCache>>
       ELSE /\ userCache' = [userCache EXCEPT ![fetch[c].username] = now + USER_CACHE_TTL_MS]
            /\ EnqueueTimeline(c, fetch[c].username, fetch[c].prioritizeNew, fetch[c].maxId)
    /\ UNCHANGED <<cacheVars, syncVars, backfillVars, trackerVars>>

\* fetchLatestTweets after the await of the timeline request: [] when it was
\* rejected, else the tweets of the answer, cached when the fetch was a fresh one
FetchTimelineDone(c, tweetsArray) ==
    /\ fetch[c].pc = "timeline"
    /\ Settled(fetch[c].req)
    /\ IF promise[fetch[c].req] = "rejected"
       THEN /\ FetchReturns(c, <<>>)
            /\ UNCHANGED cacheVars
       ELSE /\ FetchReturns(c, tweetsArray)
            /\ IF fetch[c].prioritizeNew /\ tweetsArray # <<>>
               THEN cacheTweets(fetch[c].username, tweetsArray)
               ELSE UNCHANGED cacheVars
    /\ UNCHANGED <<schedVars, userCache, syncVars, backfillVars, trackerVars>>

\* the queueRequest calls a fetchLatestTweets call makes at most
RequestsNeeded(username, prioritizeNew, maxId) ==
    IF CacheShortCircuit(username, prioritizeNew, maxId) THEN 0
    ELSE IF userCache[username] > now THEN 1 ELSE 2

\* (prioritizeNew, maxId) as the callers pass them: a fresh fetch without a
\* cursor, a backfill fetch without or with the id of the oldest tweet it has
FetchArgs == {<<TRUE, NoId>>, <<FALSE, NoId>>, <<FALSE, 1>>}

\* a caller outside the tracker loops calls fetchLatestTweets
DirectFetch(username, prioritizeNew, maxId) ==
    /\ fetch[Direct].pc = "idle"
    /\ Len(promise) + RequestsNeeded(username, prioritizeNew, maxId) <= MaxCacheRequests
    /\ fetchLatestTweets(Direct, username, prioritizeNew, maxId)
    /\ UNCHANGED <<cacheVars, syncVars, backfillVars, trackerVars>>

\* and receives the result
DirectReturn ==
    /\ fetch[Direct].pc = "done"
    /\ fetch' = [fetch EXCEPT ![Direct] = FetchIdle]
    /\ UNCHANGED <<schedVars, cacheVars, userCache, syncVars, backfillVars, trackerVars>>

---------------------------------------------------------------------------
(* TrackerService.syncLatestTweets.  Each call that finds no sync in flight  *)
(* starts a pass: the async function that loops over the usernames.          *)

\* [...this.DEFAULT_ACCOUNTS, ...this.TEST_ACCOUNTS]
Usernames == <<"a1", "a2">>

SyncCalls == 1..MaxSyncCalls
SyncIdle == [pc |-> "idle", idx |-> 0]
NotCalled == [state |-> "idle", pass |-> 0]

\* Date.now() - lastSync < this.minSyncIntervalMs
Cooldown(username) == now - accountSync[username] < minSyncIntervalMs

\* the first username at or after position i that is not skipped, 0 when none is left
NextDue(i) ==
    LET due == {j \in i..Len(Usernames) : ~Cooldown(Usernames[j])}
    IN  IF due = {} THEN 0 ELSE CHOOSE j \in due : \A k \in due : j <= k

\* (mutant) a call never finds a sync in flight
SyncInFlightNever == FALSE

\* if (this.syncPromise) return this.syncPromise
SyncInFlight == syncPromise # 0

\* the for loop of pass p from position i to its next await, or to its end, where
\* finally clears syncPromise and the promise of the pass resolves; `calls` is
\* syncCall with the call that started the pass, if this is that call
SyncLoopFrom(p, i, calls) ==
    LET j == NextDue(i)
    IN  IF j = 0
        THEN /\ syncLoop' = [syncLoop EXCEPT ![p] = [pc |-> "done", idx |-> 0]]
             /\ syncPromise' = 0
             /\ syncCall' = [c \in SyncCalls |->
                                IF calls[c].state = "awaiting" /\ calls[c].pass = p
                                THEN [calls[c] EXCEPT !.state = "answered"]
                                ELSE calls[c]]
             /\ fetch' = [fetch EXCEPT ![SyncPass(p)] = FetchIdle]
             /\ UNCHANGED <<schedVars, userCache, syncFetches>>
        ELSE /\ Len(promise) + RequestsNeeded(Usernames[j], TRUE, NoId) <= MaxFetchRequests
             /\ fetchLatestTweets(SyncPass(p), Usernames[j], TRUE, NoId)
             /\ syncLoop' = [syncLoop EXCEPT ![p] = [pc |-> "fetch", idx |-> j]]
             /\ syncPromise' = (IF i = 1 THEN p ELSE syncPromise)   \* assigned by the call that starts the pass
             /\ syncCall' = calls
             /\ syncFetches' = [syncFetches EXCEPT ![p][Usernames[j]] = @ + 1]

\* syncLatestTweets(), called by caller c
syncLatestTweets(c) ==
    /\ syncCall[c].state = "idle"
    /\ IF SyncInFlight
       THEN /\ syncCall' = [syncCall EXCEPT ![c] = [state |-> "awaiting", pass |-> syncPromise]]
            /\ UNCHANGED <<schedVars, fetchVars, syncPromise, syncLoop, syncFetches>>
       ELSE LET p == 1 + Cardinality({q \in SyncCalls : syncLoop[q].pc # "idle"})
            IN  SyncLoopFrom(p, 1, [syncCall EXCEPT ![c] = [state |-> "awaiting", pass |-> p]])
    /\ UNCHANGED <<cacheVars, accountSync, backfillVars, trackerVars>>

\* pass p after await fetchLatestTweets: save, emit and notify the new tweets,
\* accountSync.set and the 120 ms delay; when saving or notifying throws, the
\* catch logs and the loop goes on with the next username
SyncFetchDone(p, saved) ==
    /\ syncLoop[p].pc = "fetch"
    /\ fetch[SyncPass(p)].pc = "done"
    /\ IF saved \/ fetch[SyncPass(p)].result = <<>>
       THEN /\ accountSync' = [accountSync EXCEPT ![Usernames[syncLoop[p].idx]] = now]
            /\ syncLoop' = [syncLoop EXCEPT ![p].pc = "sleep"]
            /\ fetch' = [fetch EXCEPT ![SyncPass(p)] = FetchIdle]
            /\ UNCHANGED <<schedVars, userCache, syncPromise, syncCall, syncFetches>>
       ELSE /\ SyncLoopFrom(p, syncLoop[p].idx + 1, syncCall)
            /\ UNCHANGED accountSync
    /\ UNCHANGED <<cacheVars, backfillVars, trackerVars>>

\* pass p after the 120 ms delay
SyncWake(p) ==
    /\ syncLoop[p].pc = "sleep"
    /\ SyncLoopFrom(p, syncLoop[p].idx + 1, syncCall)
    /\ UNCHANGED <<cacheVars, accountSync, backfillVars, trackerVars>>

---------------------------------------------------------------------------
(* TrackerService.runSmartBackfill *)

\* the smallest budget a session runs with: if (maxBackfillRequests < 5) return
MinBackfillBudget == 5

\* the budgets getApiUsage() leads to: too small to run, the smallest that runs, a larger one
BackfillBudgets == {MinBackfillBudget - 1, MinBackfillBudget, MaxBackfillBudget}

\* TwitterService.apiUsage, the legacy counter: the constructor and loadApiUsage
\* set it at startup; trackApiCall, the one method that counts a request in
\* it, is called by nothing in the class
apiUsage == [requests |-> 0, windowStart |-> 0]

\* rateLimit: totalLimit || 300
DefaultRateLimit == 300

RECURSIVE Sum(_, _)
\* the forEach of getApiUsage that adds up a field of the statuses
Sum(f, S) ==
    IF S = {} THEN 0
    ELSE LET k == CHOOSE x \in S : TRUE IN f[k] + Sum(f, S \ {k})

\* getRateLimitStatus(): one status for every entry of rateLimitCache
getRateLimitStatus ==
    [k \in {key \in Keys : rateLimitCache[key].present} |->
        [used |-> rateLimitCache[k].count, limit |-> rateLimitCache[k].limit]]

\* getApiUsage(): the fields runSmartBackfill reads, and summary.totalUsed
getApiUsage ==
    LET status == getRateLimitStatus
        totalUsed == Sum([k \in DOMAIN status |-> status[k].used], DOMAIN status)
        totalLimit == Sum([k \in DOMAIN status |-> status[k].limit], DOMAIN status)
    IN  [requests |-> apiUsage.requests,
         rateLimit |-> IF totalLimit # 0 THEN totalLimit ELSE DefaultRateLimit,
         timeUntilReset |-> WindowMs - (now - apiUsage.windowStart),
         totalUsed |-> totalUsed]

\* runSmartBackfill: maxBackfillRequests for the answer u of getApiUsage(), in
\* tenths of a request: Math.min(50, availableRequests * 0.3) when more than 10
\* of the 15 minutes are left, Math.min(20, availableRequests * 0.2) when more
\* than 5, else Math.min(5, availableRequests * 0.1)
maxBackfillRequestsTenths(u) ==
    LET availableRequests == u.rateLimit - u.requests
    IN  IF 3 * u.timeUntilReset > 2 * WindowMs
        THEN Min(50 * 10, availableRequests * 3)
        ELSE IF 3 * u.timeUntilReset > WindowMs
             THEN Min(20 * 10, availableRequests * 2)
             ELSE Min(5 * 10, availableRequests)

NoBackfillState == [currentAccount |-> 0, accountProgress |-> <<>>]

NoSession == [pc |-> "idle", requestsUsed |-> 0, maxBackfillRequests |-> 0,
              startAccount |-> 0, account |-> 0]

\* initializeBackfillSystem(accounts): nothing backfilled yet
InitialBackfillState ==
    [currentAccount |-> 0,
     accountProgress |->
        [i \in DOMAIN Usernames |->
            [username |-> Usernames[i], lastBackfillId |-> NoId, completed |-> FALSE]]]

\* (mutant) an empty result leaves the account as it is
MarkCompletedNot(accountInfo) == accountInfo

\* accountInfo.completed = true
MarkCompleted(accountInfo) == [accountInfo EXCEPT !.completed = TRUE]

\* this.backfillState.accountProgress.forEach(acc => acc.completed = false)
ResetCycle(bs) ==
    [bs EXCEPT !.accountProgress =
        [i \in DOMAIN @ |-> [@[i] EXCEPT !.completed = FALSE]]]

RECURSIVE BackfillLoopTop(_, _, _, _)
\* the while loop from its test to the next fetch (go) or to its end: completed
\* accounts are passed over, and the cycle is reset when that leads back to startAccount
BackfillLoopTop(bs, requestsUsed, maxBackfillRequests, startAccount) ==
    IF ~(requestsUsed < maxBackfillRequests /\ isRunning)
    THEN [bs |-> bs, go |-> FALSE]
    ELSE IF bs.accountProgress[bs.currentAccount + 1].completed
         THEN LET moved == [bs EXCEPT !.currentAccount = (@ + 1) % Len(bs.accountProgress)]
              IN  IF moved.currentAccount = startAccount
                  THEN [bs |-> ResetCycle(moved), go |-> FALSE]
                  ELSE BackfillLoopTop(moved, requestsUsed, maxBackfillRequests, startAccount)
         ELSE [bs |-> bs, go |-> TRUE]

\* run the loop of the session s on from its test
BackfillLoop(s) ==
    LET top == BackfillLoopTop(backfillState, s.requestsUsed, s.maxBackfillRequests,
                               s.startAccount)
        accountInfo == top.bs.accountProgress[top.bs.currentAccount + 1]
    IN  /\ backfillState' = top.bs
        /\ IF top.go
           THEN /\ Len(promise) + RequestsNeeded(accountInfo.username, FALSE,
                                                 accountInfo.lastBackfillId)
                      <= MaxBackfillRequests
                /\ fetchLatestTweets(Backfill, accountInfo.username, FALSE,
                                     accountInfo.lastBackfillId)
                /\ session' = [s EXCEPT !.pc = "fetch", !.account = top.bs.currentAccount]
           ELSE /\ session' = NoSession
                /\ fetch' = [fetch EXCEPT ![Backfill] = FetchIdle]
                /\ UNCHANGED <<schedVars, userCache>>

\* runSmartBackfill(), started by its timer, with the budget computed from getApiUsage()
runSmartBackfill(maxBackfillRequests) ==
    /\ session.pc = "idle"
    /\ isRunning
    /\ IF maxBackfillRequests < MinBackfillBudget
       THEN UNCHANGED <<schedVars, fetchVars, backfillState, session>>
       ELSE BackfillLoop([pc |-> "idle", requestsUsed |-> 0,
                          maxBackfillRequests |-> maxBackfillRequests,
                          startAccount |-> backfillState.currentAccount,
                          account |-> 0])
    /\ UNCHANGED <<cacheVars, syncVars, isRunning, trackerVars>>

\* runSmartBackfill after await fetchLatestTweets: count two requests, keep the
\* id of the oldest tweet or mark the account completed, move to the next
\* account, then the 200 ms delay
BackfillFetchDone ==
    /\ session.pc = "fetch"
    /\ fetch[Backfill].pc = "done"
    /\ LET oldTweets == fetch[Backfill].result
           i == session.account + 1
       IN  backfillState' =
              [backfillState EXCEPT
                  !.accountProgress[i] =
                      IF oldTweets # <<>>
                      THEN [@ EXCEPT !.lastBackfillId = oldTweets[Len(oldTweets)].id]
                      ELSE MarkCompleted(@),
                  !.currentAccount = (@ + 1) % Len(backfillState.accountProgress)]
    /\ session' = [session EXCEPT !.pc = "sleep", !.requestsUsed = @ + 2]
    /\ fetch' = [fetch EXCEPT ![Backfill] = FetchIdle]
    /\ UNCHANGED <<schedVars, cacheVars, userCache, syncVars, isRunning, trackerVars>>

\* runSmartBackfill after the 200 ms delay: back to the while test
BackfillWake ==
    /\ session.pc = "sleep"
    /\ BackfillLoop(session)
    /\ UNCHANGED <<cacheVars, syncVars, isRunning, trackerVars>>

---------------------------------------------------------------------------
(* TwitterService.setupRealTimeStream *)

NoStream == [pc |-> "idle", idx |-> 0, req |-> 0, userIds |-> 0, toAdd |-> FALSE, direct |-> {}]

\* what the provider answers to streamRules(), as the reconciliation sees it:
\* the call failed, or the rules to delete and to add
RuleAnswers == {"error", "same", "add", "delete", "both"}

\* this.stream = searchStream({autoConnect: false}); await this.stream.connect(...)
Connect(s) ==
    [s EXCEPT !.pc = "connecting", !.direct = @ \cup {"searchStream.connect"}]

\* setupRealTimeStream(accounts), up to the loop over the accounts
setupRealTimeStream ==
    /\ stream.pc = "idle"
    /\ isRunning
    /\ stream' = [NoStream EXCEPT !.pc = "account", !.idx = 1]
    /\ UNCHANGED <<schedVars, cacheVars, fetchVars, syncVars, backfillVars, poll, emitted, chains>>

\* the loop over the accounts: getUserId(username) from the cache or through
\* queueRequest('userLookup', 1, username); after the last account the throw
\* when no id was found, else await this.readOnlyClient.v2.streamRules()
StreamAccount ==
    /\ stream.pc = "account"
    /\ IF stream.idx > Len(Usernames)
       THEN /\ stream' = IF stream.userIds = 0
                         THEN [stream EXCEPT !.pc = "failed"]
                         ELSE [stream EXCEPT !.pc = "rules", !.direct = @ \cup {"streamRules"}]
            /\ UNCHANGED schedVars
       ELSE IF userCache[Usernames[stream.idx]] > now
            THEN /\ stream' = [stream EXCEPT !.idx = @ + 1, !.userIds = @ + 1]
                 /\ UNCHANGED schedVars
            ELSE /\ queueRequest("userLookup", 1, Usernames[stream.idx])
                 /\ stream' = [stream EXCEPT !.pc = "lookup", !.req = Len(promise) + 1]
    /\ UNCHANGED <<cacheVars, fetchVars, syncVars, backfillVars, poll, emitted, chains>>

\* getUserId after its await, called by setupRealTimeStream
StreamLookupDone(found) ==
    /\ stream.pc = "lookup"
    /\ Settled(stream.req)
    /\ IF promise[stream.req] = "rejected" \/ ~found
       THEN /\ stream' = [stream EXCEPT !.pc = "account", !.idx = @ + 1, !.req = 0]
            /\ UNCHANGED userCache
       ELSE /\ userCache' = [userCache EXCEPT ![Usernames[stream.idx]] = now + USER_CACHE_TTL_MS]
            /\ stream' = [stream EXCEPT !.pc = "account", !.idx = @ + 1, !.req = 0,
                                        !.userIds = @ + 1]
    /\ UNCHANGED <<schedVars, cacheVars, fetch, syncVars, backfillVars, poll, emitted, chains>>

\* after await streamRules(): updateStreamRules({delete}), else updateStreamRules({add}),
\* else the connection; the inner catch goes on to the connection as well
StreamRulesDone(answer) ==
    /\ stream.pc = "rules"
    /\ stream' =
          IF answer \in {"delete", "both"}
          THEN [stream EXCEPT !.pc = "delete", !.toAdd = (answer = "both"),
                              !.direct = @ \cup {"updateStreamRules"}]
          ELSE IF answer = "add"
               THEN [stream EXCEPT !.pc = "add", !.direct = @ \cup {"updateStreamRules"}]
               ELSE Connect(stream)
    /\ UNCHANGED <<schedVars, cacheVars, fetchVars, syncVars, backfillVars, poll, emitted, chains>>

\* after await updateStreamRules({delete}): the rules to add, if any and if it did not throw
StreamDeleteDone(ok) ==
    /\ stream.pc = "delete"
    /\ stream' = IF ok /\ stream.toAdd
                 THEN [stream EXCEPT !.pc = "add"]
                 ELSE Connect(stream)
    /\ UNCHANGED <<schedVars, cacheVars, fetchVars, syncVars, backfillVars, poll, emitted, chains>>

\* after await updateStreamRules({add}), whether it threw or not
StreamAddDone ==
    /\ stream.pc = "add"
    /\ stream' = Connect(stream)
    /\ UNCHANGED <<schedVars, cacheVars, fetchVars, syncVars, backfillVars, poll, emitted, chains>>

\* after await this.stream.connect(...): return this.stream, or null from the catch
StreamConnectDone(ok) ==
    /\ stream.pc = "connecting"
    /\ stream' = [stream EXCEPT !.pc = IF ok THEN "live" ELSE "failed"]
    /\ UNCHANGED <<schedVars, cacheVars, fetchVars, syncVars, backfillVars, poll, emitted, chains>>

\* the stream reports ConnectionError, Error or ConnectionClosed: the three
\* handlers log, and the library reconnects by itself (autoReconnect: true)
StreamEvent ==
    /\ stream.pc = "live"
    /\ stream' = [stream EXCEPT !.pc = "reconnecting"]
    /\ UNCHANGED <<schedVars, cacheVars, fetchVars, syncVars, backfillVars, poll, emitted, chains>>

\* the library has reconnected (the Connected handler logs)
StreamReconnected ==
    /\ stream.pc = "reconnecting"
    /\ stream' = [stream EXCEPT !.pc = "live"]
    /\ UNCHANGED <<schedVars, cacheVars, fetchVars, syncVars, backfillVars, poll, emitted, chains>>

\* closeStream(): if (this.stream) this.stream.close()
closeStream(s) ==
    IF s.pc \in {"connecting", "live", "reconnecting"} THEN [s EXCEPT !.pc = "closed"] ELSE s

---------------------------------------------------------------------------
(* TrackerService.setupPollingFallback and stop *)

PollCycles == 1..MaxPollCycles
NoCycle == [pc |-> "idle", idx |-> 0]

\* setup: "off", "initial" while setupPollingFallback awaits the first
\* fetchNewTweets(), "armed" after setInterval; timer: pollingInterval is live;
\* cycle: the calls of fetchNewTweets, the first by setupPollingFallback, the
\* others by the interval
NoPoll == [setup |-> "off", timer |-> FALSE, cycle |-> [c \in PollCycles |-> NoCycle]]

\* fetchNewTweets returns; setupPollingFallback, when it awaited this call,
\* goes on to this.pollingInterval = setInterval(fetchNewTweets, 15000)
CycleEnd(p, c) ==
    IF c = 1 /\ p.setup = "initial"
    THEN [p EXCEPT !.cycle[c].pc = "done", !.setup = "armed", !.timer = TRUE]
    ELSE [p EXCEPT !.cycle[c].pc = "done"]

\* fetchNewTweets, the for loop at account i: fetchLatestTweets(username, true)
PollLoop(p, c, i) ==
    IF i > Len(Usernames)
    THEN /\ poll' = CycleEnd(p, c)
         /\ fetch' = [fetch EXCEPT ![Poll(c)] = FetchIdle]
         /\ UNCHANGED <<schedVars, userCache>>
    ELSE /\ Len(promise) + RequestsNeeded(Usernames[i], TRUE, NoId) <= MaxPollRequests
         /\ fetchLatestTweets(Poll(c), Usernames[i], TRUE, NoId)
         /\ poll' = [p EXCEPT !.cycle[c] = [pc |-> "fetch", idx |-> i]]

\* fetchNewTweets from its first line: if (!this.isRunning) return
fetchNewTweets(p, c) ==
    IF ~isRunning
    THEN /\ poll' = CycleEnd(p, c)
         /\ UNCHANGED <<schedVars, fetchVars>>
    ELSE PollLoop(p, c, 1)

\* setupPollingFallback(accounts): await fetchNewTweets(), then setInterval
setupPollingFallback ==
    /\ poll.setup = "off"
    /\ fetchNewTweets([poll EXCEPT !.setup = "initial"], 1)
    /\ UNCHANGED <<cacheVars, syncVars, backfillVars, stream, emitted, chains>>

\* start() after await setupRealTimeStream: if (!stream) await setupPollingFallback(...)
StartFallback ==
    /\ stream.pc = "failed"
    /\ setupPollingFallback

\* pollingInterval fires: fetchNewTweets() is called, whether or not an
\* earlier call is still in its loop
PollTimer(c) ==
    /\ poll.timer
    /\ poll.cycle[c].pc = "idle"
    /\ \A d \in PollCycles : d < c => poll.cycle[d].pc # "idle"
    /\ fetchNewTweets(poll, c)
    /\ UNCHANGED <<cacheVars, syncVars, backfillVars, stream, emitted, chains>>

\* io.emit('newTweets', processedTweets), counted up to EmitCap
Emit(username, newTweets) ==
    [emitted EXCEPT ![username] =
        [id \in TweetIds |->
            IF \E k \in DOMAIN newTweets : newTweets[k].id = id
            THEN Min(@[id] + 1, EmitCap)
            ELSE @[id]]]

\* getLatestTweetId(username), the since_id of a fresh fetch: the greatest id
\* saveTweetsToDb has stored, which the polling cycle does as it emits; 0 for none
getLatestTweetId(username) ==
    LET ids == {id \in TweetIds : emitted[username][id] > 0}
    IN  IF ids = {} THEN 0 ELSE CHOOSE id \in ids : \A other \in ids : other <= id

\* the answers of the provider to a fresh fetch for username: tweets after since_id
NewerItemLists(username, t) ==
    {tweets \in FewItemLists(t) :
        \A k \in DOMAIN tweets : tweets[k].id > getLatestTweetId(username)}

\* fetchNewTweets after await fetchLatestTweets: saveTweetsToDb and io.emit when
\* newTweets.length > 0, then the 1 s pause when getApiUsage() is above 90 %,
\* else the next account
PollFetchDone(c, pause) ==
    /\ poll.cycle[c].pc = "fetch"
    /\ fetch[Poll(c)].pc = "done"
    /\ emitted' = Emit(Usernames[poll.cycle[c].idx], fetch[Poll(c)].result)
    /\ IF pause
       THEN /\ poll' = [poll EXCEPT !.cycle[c].pc = "sleep"]
            /\ fetch' = [fetch EXCEPT ![Poll(c)] = FetchIdle]
            /\ UNCHANGED <<schedVars, userCache>>
       ELSE PollLoop(poll, c, poll.cycle[c].idx + 1)
    /\ UNCHANGED <<cacheVars, syncVars, backfillVars, stream, chains>>

\* fetchNewTweets after the pause
PollWake(c) ==
    /\ poll.cycle[c].pc = "sleep"
    /\ PollLoop(poll, c, poll.cycle[c].idx + 1)
    /\ UNCHANGED <<cacheVars, syncVars, backfillVars, stream, emitted, chains>>

(* The backfill timer chain.  Every start() begins one: the 30 s timer of   *)
(* initializeBackfillSystem, then runSmartBackfill and scheduleNextBackfill  *)
(* in turn.  A session here is a runSmartBackfill call from its start to its *)
(* return.                                                                   *)

Chains == 1..MaxStarts

\* pc: "none", "initial" (the 30 s timer), "scheduled" (the timer of
\* scheduleNextBackfill), "session", "ended", "cancelled"; usage and delay: the
\* usagePercentage read and the minutes chosen for the timer of
\* scheduleNextBackfill, 0 once it has fired; sessions: the sessions the chain
\* has run (history)
NoChain == [pc |-> "none", usage |-> 0, delay |-> 0, sessions |-> 0]
NoChains == [run |-> [c \in Chains |-> NoChain], backfillTimeout |-> 0]

\* usage.usagePercentage as getApiUsage() may answer it
UsagePercentages == {29, 30, 59, 60, 79, 80}

\* (mutant) the bands of 5 and 10 minutes the wrong way round
intervalMinutesSwapped(usagePercentage) ==
    IF usagePercentage < 30 THEN 2
    ELSE IF usagePercentage < 60 THEN 10
    ELSE IF usagePercentage < 80 THEN 5
    ELSE 20

\* scheduleNextBackfill: intervalMs, in minutes, for currentUsage = usagePercentage / 100
intervalMinutes(usagePercentage) ==
    IF usagePercentage < 30 THEN 2
    ELSE IF usagePercentage < 60 THEN 5
    ELSE IF usagePercentage < 80 THEN 10
    ELSE 20

\* scheduleNextBackfill() at the end of a session of chain c
scheduleNextBackfill(ch, c, usagePercentage) ==
    IF ~isRunning
    THEN [ch EXCEPT !.run[c].pc = "ended"]
    ELSE [ch EXCEPT !.run[c].pc = "scheduled",
                    !.run[c].usage = usagePercentage,
                    !.run[c].delay = intervalMinutes(usagePercentage),
                    !.backfillTimeout = c]

\* start(), as far as isRunning and the backfill system go: isRunning = true,
\* initializeBackfillSystem resets backfillState and sets the 30 s timer, whose
\* handle is kept nowhere
Start(c) ==
    /\ ~isRunning
    /\ chains.run[c].pc = "none"
    /\ \A d \in Chains : d < c => chains.run[d].pc # "none"
    /\ isRunning' = TRUE
    /\ backfillState' = InitialBackfillState
    /\ chains' = [chains EXCEPT !.run[c].pc = "initial"]
    /\ UNCHANGED <<schedVars, cacheVars, fetchVars, syncVars, session, stream, poll, emitted>>

\* a timer of chain c fires: runSmartBackfill() when isRunning; when not, the
\* 30 s timer's runSmartBackfill and scheduleNextBackfill return at once, and
\* the callback of scheduleNextBackfill does nothing
ChainTimer(c) ==
    /\ chains.run[c].pc \in {"initial", "scheduled"}
    /\ chains.run[c].sessions < MaxChainSessions
    /\ chains' = IF isRunning
                 THEN [chains EXCEPT !.run[c] = [pc |-> "session", usage |-> 0, delay |-> 0,
                                                 sessions |-> @.sessions + 1]]
                 ELSE [chains EXCEPT !.run[c] = [pc |-> "ended", usage |-> 0, delay |-> 0,
                                                 sessions |-> @.sessions]]
    /\ UNCHANGED <<schedVars, cacheVars, fetchVars, syncVars, backfillVars, stream, poll, emitted>>

\* runSmartBackfill() of chain c returns: .then(() => this.scheduleNextBackfill())
ChainSessionEnd(c, usagePercentage) ==
    /\ chains.run[c].pc = "session"
    /\ chains' = scheduleNextBackfill(chains, c, usagePercentage)
    /\ UNCHANGED <<schedVars, cacheVars, fetchVars, syncVars, backfillVars, stream, poll, emitted>>

\* clearTimeout(this.backfillTimeout): the timer scheduleNextBackfill set last
clearBackfillTimeout(ch) ==
    IF ch.backfillTimeout # 0 /\ ch.run[ch.backfillTimeout].pc = "scheduled"
    THEN [ch EXCEPT !.run[ch.backfillTimeout] =
                       [pc |-> "cancelled", usage |-> 0, delay |-> 0, sessions |-> @.sessions]]
    ELSE ch

\* stop(): isRunning = false, closeStream(), clearInterval(pollingInterval),
\* clearTimeout(backfillTimeout); a runSmartBackfill in progress is left to
\* its isRunning guard
Stop ==
    /\ isRunning
    /\ isRunning' = FALSE
    /\ stream' = closeStream(stream)
    /\ poll' = [poll EXCEPT !.timer = FALSE]
    /\ chains' = clearBackfillTimeout(chains)
    /\ UNCHANGED <<schedVars, cacheVars, fetchVars, syncVars, backfillState, session, emitted>>

---------------------------------------------------------------------------
(* Initial states and specifications *)

SchedInit(t) ==
    /\ now = t
    /\ storageUp = TRUE
    /\ tableExists = FALSE
    /\ usage = [k \in Keys |-> [w \in WindowStarts |-> 0]]
    /\ rateLimitCache = [k \in Keys |-> NoEntry]
    /\ requestQueue = <<>>
    /\ isProcessingQueue = FALSE
    /\ pc = "idle"
    /\ request = NoRequest
    /\ wakeAt = 0
    /\ promise = <<>>
    /\ throttled = 0
    /\ startedOverLimit = FALSE

\* the services as constructed; `running` is TRUE for the tracker after start()
\* with its backfill system initialized
CallerInit(running) ==
    /\ cache = [u \in Accounts |-> NoTweets]
    /\ lastFetch = [u \in Accounts |-> NoFetch]
    /\ written = NoWrite
    /\ userCache = [u \in Accounts |-> 0]
    /\ fetch = [c \in Callers |-> FetchIdle]
    /\ syncPromise = 0
    /\ syncLoop = [p \in SyncCalls |-> SyncIdle]
    /\ accountSync = [u \in Accounts |-> 0]
    /\ syncCall = [c \in SyncCalls |-> NotCalled]
    /\ syncFetches = [p \in SyncCalls |-> [u \in Accounts |-> 0]]
    /\ isRunning = running
    /\ backfillState = IF running THEN InitialBackfillState ELSE NoBackfillState
    /\ session = NoSession
    /\ stream = NoStream
    /\ poll = NoPoll
    /\ emitted = [u \in Accounts |-> [id \in TweetIds |-> 0]]
    /\ chains = NoChains

Init == SchedInit(0) /\ CallerInit(FALSE)

Next ==
    \/ /\ Len(promise) < MaxRequests
       /\ \E e \in SchedEndpoints, p \in Priorities, a \in Accounts :
             queueRequest(e, p, a) /\ UNCHANGED callerVars
    \/ Admit
    \/ Wake
    \/ \E headers \in HeaderChoices(now) : CompleteOk(headers)
    \/ CompleteThrottled
    \/ CompleteError
    \/ Resume
    \/ Tick
    \/ StorageFlip

Spec == Init /\ [][Next]_vars

(* The scheduler with storage always available and no provider headers, for *)
(* the claims about the order of execution.                                  *)
NextOrder ==
    \/ /\ Len(promise) < MaxOrderRequests
       /\ \E e \in SchedEndpoints, p \in Priorities, a \in Accounts :
             queueRequest(e, p, a) /\ UNCHANGED callerVars
    \/ Admit
    \/ Wake
    \/ CompleteOk(NoHeaders)
    \/ CompleteThrottled
    \/ CompleteError
    \/ Resume
    \/ Tick

SpecOrder == Init /\ [][NextOrder]_vars

(* The same with the fairness of the event loop: a pending continuation of   *)
(* processQueue runs, a closure returns, a timer fires, the clock advances.  *)
NextFair ==
    \/ /\ Len(promise) < MaxRequests
       /\ \E e \in SchedEndpoints, p \in Priorities, a \in Accounts :
             queueRequest(e, p, a) /\ UNCHANGED callerVars
    \/ Admit
    \/ Wake
    \/ CompleteOk(NoHeaders)
    \/ CompleteThrottled
    \/ CompleteError
    \/ Resume
    \/ Tick

FairSpec ==
    /\ Init /\ [][NextFair]_vars
    /\ WF_vars(Admit) /\ WF_vars(Wake) /\ WF_vars(Resume) /\ WF_vars(Tick)
    /\ WF_vars(CompleteOk(NoHeaders) \/ CompleteThrottled \/ CompleteError)

(* The same where a closure need not return: await request.requestFn() has  *)
(* no timeout, so nothing makes the completion of a request happen.          *)
SpecHang ==
    /\ Init /\ [][NextFair]_vars
    /\ WF_vars(Admit) /\ WF_vars(Wake) /\ WF_vars(Resume) /\ WF_vars(Tick)

(* The scheduler with requests for both endpoints and the provider's headers *)
(* on the responses, the store answering.                                    *)
NextHeaders ==
    \/ /\ Len(promise) < MaxRequests
       /\ \E e \in Endpoints, p \in Priorities, a \in Accounts :
             queueRequest(e, p, a) /\ UNCHANGED callerVars
    \/ Admit
    \/ Wake
    \/ \E headers \in HeaderChoices(now) : CompleteOk(headers)
    \/ CompleteError
    \/ Resume
    \/ Tick

SpecHeaders == Init /\ [][NextHeaders]_vars

(* The fair scheduler under a provider that may answer 429 to every attempt. *)
NextThrottle ==
    \/ /\ Len(promise) < MaxRequests
       /\ \E e \in SchedEndpoints, p \in Priorities, a \in Accounts :
             queueRequest(e, p, a) /\ UNCHANGED callerVars
    \/ Admit
    \/ Wake
    \/ CompleteOk(NoHeaders)
    \/ CompleteThrottledAgain
    \/ CompleteError
    \/ Resume
    \/ Tick

SpecThrottle ==
    /\ Init /\ [][NextThrottle]_vars
    /\ WF_vars(Admit) /\ WF_vars(Wake) /\ WF_vars(Resume) /\ WF_vars(Tick)
    /\ WF_vars(CompleteOk(NoHeaders) \/ CompleteThrottledAgain \/ CompleteError)

(* The cache and fetchLatestTweets under arbitrary calls, with the drain loop *)
(* answering the requests the fetches enqueue.                               *)
NextCache ==
    \/ Tick
    \/ \E u \in CacheAccounts, args \in FetchArgs : DirectFetch(u, args[1], args[2])
    \/ \E found \in BOOLEAN : FetchLookupDone(Direct, found)
    \/ \E tweets \in ItemLists(now) : FetchTimelineDone(Direct, tweets)
    \/ DirectReturn
    \/ \E u \in CacheAccounts, tweet \in StreamTweets(now) : AddNewTweet(u, tweet)
    \/ Admit
    \/ Wake
    \/ CompleteOk(NoHeaders)
    \/ CompleteError
    \/ Resume

SpecCache == Init /\ [][NextCache]_vars

(* TweetCache by itself: the writes to one entry in any order as time passes. *)
NextTweetCache ==
    \/ Tick
    \/ \E u \in CacheAccounts, tweets \in EntryLists(now) : CacheTweets(u, tweets)
    \/ \E u \in CacheAccounts, tweet \in EntryTweets(now) : AddNewTweet(u, tweet)

SpecTweetCache == Init /\ [][NextTweetCache]_vars

(* TweetCache with cleanup(): the entries of two accounts, written and left *)
(* alone for longer than twice CACHE_DURATION.                              *)
NextCleanup ==
    \/ TickUntil(MaxEntryTime)
    \/ \E u \in Accounts, tweets \in FewItemLists(now) : CacheTweets(u, tweets)
    \/ \E u \in Accounts, tweet \in StreamTweets(now) : AddNewTweet(u, tweet)
    \/ Cleanup

SpecCleanup == Init /\ [][NextCleanup]_vars

(* syncLatestTweets called up to MaxSyncCalls times.  The clock starts late  *)
(* enough for an account never synced (lastSync 0) to be out of its cooldown, *)
(* as it is at any real Date.now().                                           *)
NextSync ==
    \/ Tick
    \/ \E c \in SyncCalls :
          /\ \A d \in SyncCalls : d < c => syncCall[d].state # "idle"
          /\ syncLatestTweets(c)
    \/ \E p \in SyncCalls, saved \in BOOLEAN : SyncFetchDone(p, saved)
    \/ \E p \in SyncCalls : SyncWake(p)
    \/ \E p \in SyncCalls, found \in BOOLEAN : FetchLookupDone(SyncPass(p), found)
    \/ \E p \in SyncCalls, tweets \in FewItemLists(now) : FetchTimelineDone(SyncPass(p), tweets)
    \/ Admit
    \/ Wake
    \/ CompleteOk(NoHeaders)
    \/ CompleteError
    \/ Resume

InitSync == SchedInit(minSyncIntervalMs) /\ CallerInit(FALSE)

SpecSync == InitSync /\ [][NextSync]_vars

(* The backfill sessions of a started tracker, one after the other as the    *)
(* timer chain of scheduleNextBackfill runs them.                            *)
NextBackfill ==
    \/ Tick
    \/ \E maxBackfillRequests \in BackfillBudgets : runSmartBackfill(maxBackfillRequests)
    \/ BackfillFetchDone
    \/ BackfillWake
    \/ Stop
    \/ \E found \in BOOLEAN : FetchLookupDone(Backfill, found)
    \/ \E tweets \in FewItemLists(now) : FetchTimelineDone(Backfill, tweets)
    \/ Admit
    \/ Wake
    \/ CompleteOk(NoHeaders)
    \/ CompleteError
    \/ Resume

InitBackfill == SchedInit(0) /\ CallerInit(TRUE)

SpecBackfill == InitBackfill /\ [][NextBackfill]_vars

(* start() and stop() in any order, with the backfill timer chains they     *)
(* begin and cancel.                                                        *)
NextChain ==
    \/ \E c \in Chains : Start(c)
    \/ Stop
    \/ \E c \in Chains : ChainTimer(c)
    \/ \E c \in Chains, usagePercentage \in UsagePercentages :
          ChainSessionEnd(c, usagePercentage)

SpecChain == Init /\ [][NextChain]_vars

(* The stream setup of a started tracker.  Each lookup has a key of its own, *)
(* so the loop never waits for a window here.                                *)
NextStream ==
    \/ Tick
    \/ setupRealTimeStream
    \/ StreamAccount
    \/ \E found \in BOOLEAN : StreamLookupDone(found)
    \/ \E answer \in RuleAnswers : StreamRulesDone(answer)
    \/ \E ok \in BOOLEAN : StreamDeleteDone(ok)
    \/ StreamAddDone
    \/ \E ok \in BOOLEAN : StreamConnectDone(ok)
    \/ Stop
    \/ Admit
    \/ CompleteOk(NoHeaders)
    \/ CompleteError
    \/ Resume

SpecStream == InitBackfill /\ [][NextStream]_vars

(* start() from its call of setupRealTimeStream on: the stream, its events, *)
(* and the polling fallback when the setup returned null.                   *)
NextStart ==
    \/ Tick
    \/ setupRealTimeStream
    \/ StreamAccount
    \/ \E found \in BOOLEAN : StreamLookupDone(found)
    \/ \E answer \in RuleAnswers : StreamRulesDone(answer)
    \/ \E ok \in BOOLEAN : StreamDeleteDone(ok)
    \/ StreamAddDone
    \/ \E ok \in BOOLEAN : StreamConnectDone(ok)
    \/ StreamEvent
    \/ StreamReconnected
    \/ StartFallback
    \/ \E c \in PollCycles : PollTimer(c)
    \/ \E c \in PollCycles, pause \in BOOLEAN : PollFetchDone(c, pause)
    \/ \E c \in PollCycles : PollWake(c)
    \/ Stop
    \/ \E c \in PollCycles, found \in BOOLEAN : FetchLookupDone(Poll(c), found)
    \/ \E c \in PollCycles :
          /\ fetch[Poll(c)].pc = "timeline"
          /\ \E tweets \in NewerItemLists(fetch[Poll(c)].username, now) :
                FetchTimelineDone(Poll(c), tweets)
    \/ Admit
    \/ Wake
    \/ CompleteOk(NoHeaders)
    \/ CompleteError
    \/ Resume

SpecStart == InitBackfill /\ [][NextStart]_vars

(* The polling fallback of a started tracker. *)
NextPoll ==
    \/ Tick
    \/ setupPollingFallback
    \/ \E c \in PollCycles : PollTimer(c)
    \/ \E c \in PollCycles, pause \in BOOLEAN : PollFetchDone(c, pause)
    \/ \E c \in PollCycles : PollWake(c)
    \/ Stop
    \/ \E c \in PollCycles, found \in BOOLEAN : FetchLookupDone(Poll(c), found)
    \/ \E c \in PollCycles :
          /\ fetch[Poll(c)].pc = "timeline"
          /\ \E tweets \in NewerItemLists(fetch[Poll(c)].username, now) :
                FetchTimelineDone(Poll(c), tweets)
    \/ Admit
    \/ Wake
    \/ CompleteOk(NoHeaders)
    \/ CompleteError
    \/ Resume

SpecPoll == InitBackfill /\ [][NextPoll]_vars

---------------------------------------------------------------------------
(* Claims about the scheduler *)

QueueIds == {requestQueue[i].id : i \in DOMAIN requestQueue}
InHand == pc \in {"admit", "wait", "exec"}
Pending == {i \in DOMAIN promise : promise[i] = "pending"}
Outranks(r, q) ==
    r.priority > q.priority \/ (r.priority = q.priority /\ r.id < q.id)

RECURSIVE SumOver(_, _)
SumOver(S, f) ==
    IF S = {} THEN 0
    ELSE LET x == CHOOSE y \in S : TRUE IN f[x] + SumOver(S \ {x}, f)

\* C1: for every endpoint key and every window, the recorded count never
\* exceeds the limit configured for the endpoint.
C1_CountWithinLimit ==
    \A k \in Keys, w \in WindowStarts : usage[k][w] <= limits[k[1]].requests

\* C2: for every endpoint and window, the closures executed (each successful
\* one is recorded once under its account key), summed over the account keys,
\* never exceed the endpoint's limit.
C2_EndpointQuotaGlobal ==
    \A e \in Endpoints, w \in WindowStarts :
        SumOver(Accounts, [a \in Accounts |-> usage[Key(e, a)][w]]) <= limits[e].requests

C4_HeldUntilReset == ~startedOverLimit

\* C5 (as stated): the request the loop holds back for the window reset is
\* counted in the reported queue length (requestQueue.length).
C5_Original ==
    pc = "wait" => request.id \in QueueIds

\* C5 (amended): the reported queue length counts the requests enqueued and not
\* yet taken by the drain loop; the request the loop has taken (awaiting
\* admission, held back for the window reset, or executing) is not in it.
C5_QueueLength ==
    /\ Len(requestQueue) = Cardinality(Pending) - (IF InHand THEN 1 ELSE 0)
    /\ InHand => (request.id \in Pending /\ request.id \notin QueueIds)

\* a request is held back for the window reset and the reported length is 0
C5_Witness ==
    /\ pc = "wait" /\ isProcessingQueue /\ now < wakeAt
    /\ Len(requestQueue) = 0
    /\ promise[request.id] = "pending"
    /\ usage[Key(request.endpoint, request.accountId)][WindowStart(now, WindowMs)]
          >= LimitRequests

\* every pending request is in the queue once or in the hands of the loop, and
\* no promise is settled twice
C6_NeverLostNorTwice ==
    /\ Cardinality(QueueIds) = Len(requestQueue)
    /\ InHand => request.id \notin QueueIds
    /\ \A i \in Pending : i \in QueueIds \/ (InHand /\ request.id = i)
    /\ \A i \in DOMAIN promise : promise[i] # "settledTwice"
    /\ \A i \in QueueIds : promise[i] = "pending"

\* C6: a throttled request is put back and retried; it is never lost and never
\* queued twice, its promise is settled at most once, and once throttling has
\* stopped it is settled.
C6_ThrottleRequeue ==
    /\ []C6_NeverLostNorTwice
    /\ \A i \in 1..MaxRequests :
          (pc = "pause" /\ request.id = i /\ i \in DOMAIN promise /\ promise[i] = "pending")
             ~> (i \in DOMAIN promise /\ promise[i] \in {"resolved", "rejected"})

\* the only request was throttled, retried and resolved
C6_Witness ==
    Len(promise) = 1 /\ throttled > 0 /\ promise[1] = "resolved"

\* the admission step: the cache entry canMakeRequest writes is that of the
\* window containing now, with that window's own count
C7_AdmitUsesCurrentWindow ==
    (pc = "admit" /\ pc' # "admit" /\ storageUp) =>
        LET e == rateLimitCache'[Key(request.endpoint, request.accountId)]
        IN  /\ e.present
            /\ e.windowStart % WindowMs = 0
            /\ e.windowStart <= now /\ now < e.windowStart + WindowMs
            /\ e.resetTime = e.windowStart + WindowMs
            /\ e.count = usage[Key(request.endpoint, request.accountId)][e.windowStart]
            /\ (\A w \in WindowStarts :
                   (w <= now /\ now < w + WindowMs
                      /\ usage[Key(request.endpoint, request.accountId)][w] = 0)
                   => (e.count = 0 /\ pc' = "exec"))

\* C7: a canMakeRequest that reads the store uses the window that contains
\* now, aligned to the window length, and observes that window's own count: 0
\* and admission when nothing was recorded in it, whatever the previous window
\* held; no count is ever recorded for a window that has not begun.
C7_WindowRollover ==
    /\ [][C7_AdmitUsesCurrentWindow]_vars
    /\ [](\A k \in Keys, w \in WindowStarts : w > now => usage[k][w] = 0)

\* admitted at count 0 in a new window although the previous one was at its limit
C7_Witness ==
    /\ pc = "exec" /\ now >= WindowMs
    /\ LET k == Key(request.endpoint, request.accountId)
           e == rateLimitCache[k]
       IN  /\ e.present /\ e.count = 0
           /\ e.windowStart = WindowStart(now, WindowMs)
           /\ usage[k][e.windowStart - WindowMs] >= LimitRequests

---------------------------------------------------------------------------
(* Claims about the cache, the backfill loop and the sync coordinator *)

\* a fresh fetch (prioritizeNew, no cursor) for username starts in this step
FreshFetchStarts(c, username) ==
    /\ fetch[c].pc = "idle" /\ fetch'[c].pc # "idle"
    /\ fetch'[c].username = username
    /\ fetch'[c].prioritizeNew /\ fetch'[c].maxId = NoId

\* the entry of written.username is still the one that cacheTweets call left, and
\* less than the TTL old
WrittenFresh ==
    /\ written.username \in Accounts
    /\ now - written.at < CACHE_DURATION

Retained(tweets, t) == {i \in DOMAIN tweets : tweets[i].created_at > t - RetentionMs}

\* C8 (as stated): less than the TTL after cacheTweets(account, items),
\* getCachedTweets(account) returns exactly items, and a fresh fetch for the
\* account returns them without enqueuing a request.
C8_Original ==
    /\ [](WrittenFresh =>
            getCachedTweets(written.username) = [hit |-> TRUE, tweets |-> written.tweets])
    /\ [][(WrittenFresh /\ FreshFetchStarts(Direct, written.username)) =>
             /\ fetch'[Direct].pc = "done"
             /\ fetch'[Direct].result = written.tweets
             /\ UNCHANGED <<requestQueue, promise>>]_vars

\* r is items written at time t as the cache keeps them: the items less than 24
\* hours old, newest first, cut to the newest MAX_TWEETS_PER_ACCOUNT
C8_CachedView(r, items, t) ==
    /\ Len(r) = Min(MAX_TWEETS_PER_ACCOUNT, Cardinality(Retained(items, t)))
    /\ \A i \in DOMAIN r : \E j \in Retained(items, t) : r[i] = items[j]
    /\ \A i, j \in DOMAIN r : i < j => r[i].created_at >= r[j].created_at
    /\ \A j \in Retained(items, t) :
          (\A i \in DOMAIN r : r[i] # items[j]) =>
              \A i \in DOMAIN r : r[i].created_at >= items[j].created_at
    /\ (/\ Retained(items, t) = DOMAIN items
        /\ Len(items) <= MAX_TWEETS_PER_ACCOUNT
        /\ \A i, j \in DOMAIN items : i < j => items[i].created_at >= items[j].created_at)
       => r = items

\* C8 (amended): less than the TTL after cacheTweets(account, items) with items
\* not empty, getCachedTweets(account) hits and returns the items less than 24
\* hours old at the write, newest first, cut to the newest
\* MAX_TWEETS_PER_ACCOUNT; that is items itself when items already has that
\* form.  A fresh fetch for the account returns that list and enqueues nothing.
C8_CacheShortCircuit ==
    /\ []((WrittenFresh /\ written.tweets # <<>>) =>
            /\ getCachedTweets(written.username).hit
            /\ C8_CachedView(getCachedTweets(written.username).tweets,
                             written.tweets, written.at))
    /\ [][(WrittenFresh /\ written.tweets # <<>>
              /\ FreshFetchStarts(Direct, written.username)) =>
             /\ fetch'[Direct].pc = "done"
             /\ fetch'[Direct].result = getCachedTweets(written.username).tweets
             /\ UNCHANGED <<requestQueue, promise, isProcessingQueue, pc>>]_vars

\* a fresh fetch was answered from the cache, with the one retained tweet of
\* the two that were written, and only the first fetch had enqueued requests
C8_Witness ==
    /\ WrittenFresh /\ Len(written.tweets) = 2
    /\ fetch[Direct].pc = "done" /\ fetch[Direct].username = written.username
    /\ fetch[Direct].prioritizeNew /\ fetch[Direct].maxId = NoId
    /\ fetch[Direct].result = cache[written.username].tweets
    /\ fetch[Direct].result # written.tweets
    /\ Len(promise) = 2

Completed(i) == backfillState.accountProgress[i].completed

ActiveLoops == {p \in SyncCalls : syncLoop[p].pc \in {"fetch", "sleep"}}
CallersOf(p) == {c \in SyncCalls : syncCall[c].state # "idle" /\ syncCall[c].pass = p}
LoopPos(loop) ==
    IF loop.pc = "idle" THEN 0
    ELSE IF loop.pc = "done" THEN Len(Usernames) + 1 ELSE loop.idx

\* every caller that is waiting waits for the one pass in flight, and no pass
\* calls fetchLatestTweets twice for an account
C10_OneSyncInFlight ==
    /\ Cardinality(ActiveLoops) <= 1
    /\ \A c \in SyncCalls :
          syncCall[c].state = "awaiting" =>
              /\ syncPromise # 0 /\ syncCall[c].pass = syncPromise
              /\ syncPromise \in ActiveLoops
    /\ \A p \in SyncCalls, u \in Accounts : syncFetches[p][u] <= 1

\* C10 (as stated): overlapping calls share one pass, and in it exactly one
\* fetch is made for each account.
C10_Original ==
    /\ C10_OneSyncInFlight
    /\ \A p \in SyncCalls :
          (syncLoop[p].pc = "done" /\ Cardinality(CallersOf(p)) >= 2) =>
              \A u \in Accounts : syncFetches[p][u] = 1

\* C10 (amended): overlapping calls share one pass: a call made while a sync is
\* in flight waits for that pass and starts no loop of its own.  In a pass
\* fetchLatestTweets is called at most once for each account: once for an
\* account whose last sync is at least the cooldown old when the loop reaches
\* it, and not at all for an account still in its cooldown.
C10_SharedSync ==
    /\ []C10_OneSyncInFlight
    /\ [][\A p \in SyncCalls, k \in DOMAIN Usernames :
             /\ (LoopPos(syncLoop[p]) < k /\ k < LoopPos(syncLoop'[p])) =>
                   /\ Cooldown(Usernames[k])
                   /\ syncFetches'[p][Usernames[k]] = syncFetches[p][Usernames[k]]
             /\ (LoopPos(syncLoop[p]) < k /\ k = LoopPos(syncLoop'[p])) =>
                   /\ ~Cooldown(Usernames[k])
                   /\ syncFetches'[p][Usernames[k]] = 1
                   /\ fetch'[SyncPass(p)].username = Usernames[k]]_vars

\* a pass two callers shared has ended and made one fetch for each account
C10_Witness ==
    \E p \in SyncCalls :
        /\ syncLoop[p].pc = "done"
        /\ Cardinality({c \in CallersOf(p) : syncCall[c].state = "answered"}) >= 2
        /\ \A u \in Accounts : syncFetches[p][u] = 1

---------------------------------------------------------------------------
(* Claims about failures of the store and of the closures *)

\* the loop leaves its admission step in this step
AdmissionStep == pc = "admit" /\ pc' # "admit"

\* C11: when the read of the store throws during canMakeRequest, canMakeRequest
\* returns false; it does not throw (the loop goes on to its wait or to the
\* closure) and it writes nothing to the cache or the store.
C11_FailsClosed ==
    [][(AdmissionStep /\ ~storageUp) =>
          /\ ~canMakeRequest(request.endpoint, request.accountId)
          /\ pc' \in {"wait", "exec"}
          /\ UNCHANGED <<rateLimitCache, usage, tableExists>>]_vars

\* the read threw for a key never read before, and the loop is past admission
C11_Witness ==
    /\ pc = "exec" /\ ~storageUp /\ ~tableExists
    /\ ~rateLimitCache[Key(request.endpoint, request.accountId)].present

\* C12: an admission that is false because the store could not be read never
\* leads to the closure being started.
C12_NoUnmeteredSend ==
    [][(AdmissionStep /\ ~storageUp) => pc' # "exec"]_vars

\* position of the request of this id in queue q, 0 when it is not there
PositionOf(q, id) ==
    IF \E i \in DOMAIN q : q[i].id = id
    THEN CHOOSE i \in DOMAIN q : q[i].id = id
    ELSE 0

\* C13: on a throttle response the request's priority is decremented and the
\* request is put back behind every queued request of equal or higher priority
\* (so those execute before the retry), and nothing executes during the backoff.
C13_RequeuedBehind ==
    [][(throttled' > throttled) =>
          /\ request'.priority = Max(0, request.priority - 1)
          /\ PositionOf(requestQueue', request.id) # 0
          /\ \A j \in DOMAIN requestQueue' :
                (requestQueue'[j].id # request.id
                   /\ requestQueue'[j].priority >= request'.priority)
                => j < PositionOf(requestQueue', request.id)
          /\ pc' = "pause"]_vars

\* C14: when a closure fails with an error that is no throttle response, the
\* request's promise is rejected, the request is not put back, the loop goes on
\* at once with the next queued request, and every request that was queued
\* behind it is settled in the end.
C14_ErrorIsolated ==
    /\ [][(pc = "exec" /\ promise'[request.id] = "rejected") =>
             /\ promise[request.id] = "pending"
             /\ request.id \notin {requestQueue'[i].id : i \in DOMAIN requestQueue'}
             /\ IF requestQueue = <<>>
                THEN pc' = "idle" /\ ~isProcessingQueue' /\ requestQueue' = <<>>
                ELSE /\ pc' = "admit" /\ request' = Head(requestQueue)
                     /\ requestQueue' = Tail(requestQueue)]_vars
    /\ \A i, j \in 1..MaxRequests :
          (/\ i \in DOMAIN promise /\ promise[i] = "rejected"
           /\ j \in DOMAIN promise /\ promise[j] = "pending")
             ~> (j \in DOMAIN promise /\ promise[j] \in {"resolved", "rejected"})

\* the first request was rejected and the one queued behind it was resolved
C14_Witness ==
    /\ Len(promise) = 2 /\ throttled = 0
    /\ promise[1] = "rejected" /\ promise[2] = "resolved"
    /\ pc = "idle"

\* C15: one drain loop at most is active, and one closure at most executes:
\* the flag is raised exactly while the loop is between its first shift and
\* its exit, a queueRequest made meanwhile only adds to the queue and leaves
\* the loop and the request in its hands as they are, and the loop ends only
\* on an empty queue.
C15_SingleDrainLoop ==
    /\ [](isProcessingQueue <=> pc # "idle")
    /\ [](pc = "idle" => (request = NoRequest /\ requestQueue = <<>>))
    /\ [][(Len(promise') > Len(promise) /\ pc # "idle") =>
             /\ UNCHANGED <<pc, request, isProcessingQueue>>
             /\ Len(requestQueue') = Len(requestQueue) + 1]_vars

\* a second request arrived while the closure of the first was executing
C15_Witness ==
    /\ pc = "exec" /\ isProcessingQueue
    /\ Len(promise) = 2 /\ request.id = 1
    /\ Len(requestQueue) = 1 /\ requestQueue[1].id = 2

\* C17: when a successful request is recorded with the provider's headers
\* (the store answers and the key has a cache entry), the entry then holds
\* the provider's remaining, reset and limit, whatever the remaining is,
\* 0 included.
C17_HeadersRecorded ==
    [][\A headers \in HeaderChoices(now) \ {NoHeaders} :
          (/\ CompleteOk(headers)
           /\ storageUp /\ tableExists
           /\ rateLimitCache[Key(request.endpoint, request.accountId)].present)
          => LET cached == rateLimitCache'[Key(request.endpoint, request.accountId)]
             IN  /\ cached.remaining = headers.remaining
                 /\ cached.resetTime = headers.reset
                 /\ cached.limit = headers.limit]_vars

\* C18: once stop() has run, no request is accepted any more: every promise
\* that exists was created before, so nothing new is enqueued or executed.
C18_NoRequestAfterStop ==
    [][~isRunning => Len(promise') = Len(promise)]_vars

-----------------------------------------------------------------------------
(* Claims about the tracker: stream setup, polling and shutdown *)

\* C16: every call to the provider made while the stream is set up (user
\* lookup, rule listing, rule update, connection) is a closure run by the
\* drain loop: none is made outside of it.
C16_AllCallsScheduled == stream.direct = {}

AwaitsScheduler(c) == fetch[c].pc \in {"lookup", "timeline"}

\* C19: once stop() has run, neither the polling cycle nor the backfill
\* session starts a fetch that goes to the provider: a cycle under way fetches
\* nothing for the accounts left, and no timer starts another cycle.
C19_NoFetchAfterStop ==
    [][~isRunning =>
          \A c \in {Poll(k) : k \in PollCycles} \cup {Backfill} :
              AwaitsScheduler(c)' => AwaitsScheduler(c)]_vars

\* C20: a closure that never returns does not stall the drain loop: the loop
\* leaves the closure within a bounded time, and every request waiting in the
\* queue is taken up.
C20_NoStall ==
    /\ (pc = "exec") ~> (pc # "exec")
    /\ \A i \in 1..MaxRequests :
          (\E k \in DOMAIN requestQueue : requestQueue[k].id = i)
             ~> ~(\E k \in DOMAIN requestQueue : requestQueue[k].id = i)

-----------------------------------------------------------------------------
(* Claims about retries, priorities and quota *)

\* C21: a request is not retried for ever: even when the provider throttles
\* every attempt, its promise is settled in the end (rejected to the caller
\* once the retries are used up).
C21_RetriesBounded ==
    \A i \in 1..MaxRequests :
        (i \in DOMAIN promise /\ promise[i] = "pending")
           ~> (i \in DOMAIN promise /\ promise[i] # "pending")

\* C22: at the moment the drain loop starts a closure, no request of a
\* strictly higher priority is in the queue, whether the request was just
\* taken from the queue or has been held since before a wait or a backoff.
C22_NoHigherPending ==
    [][(pc # "exec" /\ pc' = "exec") =>
          \A k \in DOMAIN requestQueue' : requestQueue'[k].priority <= request'.priority]_vars

\* C23: no tweet is emitted as new twice, whether the fetch that returned it
\* was answered by the provider or from the freshness cache.
C23_EmittedOnce ==
    \A u \in Accounts, id \in TweetIds : emitted[u][id] <= 1

\* the cycle c is in its loop, waiting for a request it has enqueued
PollCycleAwaits(c) == poll.cycle[c].pc = "fetch" /\ AwaitsScheduler(Poll(c))

\* C29: one polling cycle at most is in progress: the interval never starts
\* fetchNewTweets while an earlier call is still waiting for its fetch, so no
\* two cycles have a fetch queued or in flight at once.
C29_OnePollCycle ==
    \A c, d \in PollCycles : (PollCycleAwaits(c) /\ PollCycleAwaits(d)) => c = d

\* C24: when the established stream has reported an error or has closed, the
\* tracker polls while the stream reconnects: the polling loop has been started.
C24_StreamErrorStartsPolling ==
    stream.pc = "reconnecting" => poll.setup # "off"

\* C25: a request that is refused admission because its quota is used up is
\* held, not rejected: the refusal leaves every promise as it is, and a
\* promise is settled only by the step in which the closure of its request
\* returns or throws.
C25_QuotaNeverRejects ==
    /\ [][(AdmissionStep /\ ~canMakeRequest(request.endpoint, request.accountId)) =>
             (promise' = promise /\ pc' \in {"wait", "exec"})]_vars
    /\ [][\A i \in DOMAIN promise :
             (promise[i] = "pending" /\ promise'[i] # "pending") =>
                (pc = "exec" /\ request.id = i)]_vars

\* a request refused for quota, with the store answering, is waiting for the
\* reset of its window, its promise pending
C25_Witness ==
    /\ pc = "wait" /\ storageUp /\ now < wakeAt
    /\ ~canMakeRequest(request.endpoint, request.accountId)
    /\ promise[request.id] = "pending"

\* C26: after a response whose headers report remaining 0 and a reset still
\* to come, canMakeRequest is false for the key of the request, whatever the
\* count the store holds for it.
C26_ProviderExhaustionHonoured ==
    [][\A headers \in HeaderChoices(now) \ {NoHeaders} :
          (CompleteOk(headers) /\ headers.remaining = 0 /\ headers.reset > now)
             => ~(canMakeRequest(request.endpoint, request.accountId))']_vars

-----------------------------------------------------------------------------
(* Claims about the backfill cycle and the tracker's controls *)

CompletedIn(bs, i) == bs.accountProgress[i].completed

\* C27: the cycle is reset (a completed flag goes back to false) only in a
\* state where every account is completed.
C27_ResetOnlyWhenAllCompleted ==
    [][(\E i \in DOMAIN backfillState.accountProgress :
            CompletedIn(backfillState, i) /\ ~CompletedIn(backfillState', i))
          => \A i \in DOMAIN backfillState.accountProgress : CompletedIn(backfillState, i)]_vars

\* C28: whenever isProcessingQueue is false the queue is empty: a queueRequest
\* made while no loop runs starts one that takes a request at once, the loop
\* lowers its flag only on an empty queue, and every request that is in the
\* queue, whenever it was put there, comes into the hands of the loop.
C28_NeverStranded ==
    /\ [](~isProcessingQueue => requestQueue = <<>>)
    /\ [][(Len(promise') > Len(promise) /\ ~isProcessingQueue) =>
             (isProcessingQueue' /\ pc' = "admit" /\ request' # NoRequest)]_vars
    /\ [][(isProcessingQueue /\ ~isProcessingQueue') =>
             (requestQueue = <<>> /\ requestQueue' = <<>>)]_vars
    /\ \A i \in 1..MaxRequests :
          (i \in QueueIds) ~> (InHand /\ request.id = i)

\* the second request was enqueued while the loop was in the delay after its
\* last item, the queue being empty until then
C28_Witness ==
    /\ pc = "pause" /\ isProcessingQueue
    /\ Len(promise) = 2 /\ promise[1] = "resolved" /\ promise[2] = "pending"
    /\ Len(requestQueue) = 1 /\ requestQueue[1].id = 2

\* C30: whatever the order of start() and stop(), one stream and one polling
\* timer at most exist and stop() leaves none behind: once the tracker is
\* stopped, no stream is connecting or connected and no polling timer is set.
C30_StopLeavesNothing ==
    ~isRunning =>
        /\ stream.pc \notin {"connecting", "live", "reconnecting"}
        /\ ~poll.timer

---------------------------------------------------------------------------
(* Claims about the entries of TweetCache *)

NewestFirst(tweets) ==
    \A i, j \in DOMAIN tweets : i < j => tweets[i].created_at >= tweets[j].created_at

\* C31: after any cacheTweets and addNewTweet calls, the tweets of every cache
\* entry are ordered newest first by created_at.
C31_EntriesNewestFirst ==
    \A u \in Accounts : NewestFirst(cache[u].tweets)

HasId(tweets, id) == \E i \in DOMAIN tweets : tweets[i].id = id

\* C36: with fetch results of distinct ids, no cache entry ever holds two
\* tweets of the same id, and addNewTweet of a tweet whose id the entry already
\* holds leaves the entry's tweets as they are.
C36_NoDuplicateIds ==
    /\ [](\A u \in Accounts :
            \A i, j \in DOMAIN cache[u].tweets :
               i # j => cache[u].tweets[i].id # cache[u].tweets[j].id)
    /\ [][\A u \in Accounts, tweet \in EntryTweets(now) :
             (HasId(cache[u].tweets, tweet.id) /\ addNewTweet(u, tweet))
                => cache'[u].tweets = cache[u].tweets]_vars

\* an entry of two tweets the second of which was merged by addNewTweet after
\* the first was written
C36_Witness ==
    /\ Len(cache["a1"].tweets) = 2
    /\ lastFetch["a1"] = now
    /\ written = NoWrite

\* C37: every cache entry holds at most MAX_TWEETS_PER_ACCOUNT tweets, and
\* every tweet it holds was less than the retention old at the last write to
\* the entry, the time lastFetch records.
C37_EntriesCapped ==
    \A u \in Accounts :
       /\ Len(cache[u].tweets) <= MAX_TWEETS_PER_ACCOUNT
       /\ \A i \in DOMAIN cache[u].tweets :
             cache[u].tweets[i].created_at > lastFetch[u] - RetentionMs

\* cacheTweets was given more tweets inside the retention than an entry keeps:
\* the entry holds MAX_TWEETS_PER_ACCOUNT of them, and time has passed since
C37_Witness ==
    /\ written.username = "a1" /\ written.at = lastFetch["a1"]
    /\ Len(written.tweets) > MAX_TWEETS_PER_ACCOUNT
    /\ \A i \in DOMAIN written.tweets :
          written.tweets[i].created_at > written.at - RetentionMs
    /\ Len(cache["a1"].tweets) = MAX_TWEETS_PER_ACCOUNT
    /\ now > written.at

Stale(u) == lastFetch[u] # NoFetch /\ now - lastFetch[u] > CACHE_DURATION * 2

\* C39: an entry is in cache exactly when lastFetch has its time; a step that
\* removes an entry (cleanup) removes every entry whose lastFetch is older than
\* twice CACHE_DURATION, with its lastFetch record, removes no other, and
\* leaves every other entry and its lastFetch as they were.
C39_CleanupRemovesStale ==
    /\ [](\A u \in Accounts : cache[u].has <=> lastFetch[u] # NoFetch)
    /\ [][(\E u \in Accounts : cache[u].has /\ ~cache'[u].has) =>
             \A u \in Accounts :
                IF Stale(u)
                THEN cache'[u] = NoTweets /\ lastFetch'[u] = NoFetch
                ELSE cache'[u] = cache[u] /\ lastFetch'[u] = lastFetch[u]]_vars

\* the entry cacheTweets wrote for a1 has been removed by cleanup, and the
\* entry of a2, merged later by addNewTweet, is still there
C39_Witness ==
    /\ written.username = "a1" /\ written.tweets # <<>>
    /\ ~cache["a1"].has /\ lastFetch["a1"] = NoFetch
    /\ cache["a2"].has /\ lastFetch["a2"] # NoFetch

\* C35: a read of the cache (the getCachedTweets call of a fresh fetch) returns
\* the entry's tweets exactly when the entry exists and now - lastFetch is less
\* than CACHE_DURATION, and is a miss otherwise, the fetch going on to the
\* scheduler; in both cases cache and lastFetch stay as they were for every
\* account, a stale entry included.
C35_ReadLeavesCache ==
    [][\A u \in Accounts :
          FreshFetchStarts(Direct, u) =>
             /\ IF cache[u].has /\ now - lastFetch[u] < CACHE_DURATION
                THEN /\ fetch'[Direct].pc = "done"
                     /\ fetch'[Direct].result = cache[u].tweets
                     /\ Len(promise') = Len(promise)
                ELSE /\ fetch'[Direct].pc \in {"lookup", "timeline"}
                     /\ Len(promise') = Len(promise) + 1
             /\ UNCHANGED <<cache, lastFetch>>]_vars

\* a fresh fetch found the entry an earlier fetch had written too old, went on
\* to the scheduler, and the stale entry is still in the cache
C35_Witness ==
    \E u \in Accounts :
       /\ fetch[Direct].pc = "timeline" /\ fetch[Direct].username = u
       /\ fetch[Direct].prioritizeNew /\ fetch[Direct].maxId = NoId
       /\ cache[u].has /\ written.username = u /\ written.at = lastFetch[u]
       /\ now - lastFetch[u] >= CACHE_DURATION

---------------------------------------------------------------------------
(* Claims about the sync loop and the backfill schedule *)

\* pass p leaves its await of fetchLatestTweets for username in this step
SyncFetchEnds(p, username) ==
    /\ syncLoop[p].pc = "fetch" /\ syncLoop'[p] # syncLoop[p]
    /\ Usernames[syncLoop[p].idx] = username

C34_BudgetWithinQuota ==
    \A a \in Accounts :
       LET entry == rateLimitCache[Key("userTimeline", a)]
       IN  (entry.present /\ entry.windowStart = WindowStart(now, WindowMs)) =>
              maxBackfillRequestsTenths(getApiUsage) <= 10 * (entry.limit - entry.count)

ChainsAt(states) == {c \in Chains : chains.run[c].pc \in states}

\* C33: whatever the order of start() and stop(), one backfill session at most
\* runs at a time and one timer chain at most is alive (a timer pending or a
\* session running): no timer set before a stop() lives on after a later start().
C33_OneBackfillChain ==
    /\ Cardinality(ChainsAt({"session"})) <= 1
    /\ Cardinality(ChainsAt({"initial", "scheduled", "session"})) <= 1

\* C38: the delay scheduleNextBackfill chooses is 2 minutes for a usage below
\* 30 %, 5 below 60 %, 10 below 80 % and 20 otherwise, so it never decreases as
\* the usage grows, and every session that ends while the tracker runs is
\* followed by a timer with the delay of the usage read at that moment.
C38_AdaptiveDelay ==
    /\ [](\A c \in Chains :
            chains.run[c].pc = "scheduled" =>
               chains.run[c].delay =
                  (IF chains.run[c].usage < 30 THEN 2
                   ELSE IF chains.run[c].usage < 60 THEN 5
                   ELSE IF chains.run[c].usage < 80 THEN 10 ELSE 20))
    /\ [](\A p, q \in UsagePercentages :
            p <= q => intervalMinutes(p) <= intervalMinutes(q))
    /\ [][\A c \in Chains :
             (chains.run[c].pc = "session" /\ chains'.run[c].pc # "session" /\ isRunning) =>
                /\ chains'.run[c].pc = "scheduled"
                /\ chains'.backfillTimeout = c
                /\ chains'.run[c].delay = intervalMinutes(chains'.run[c].usage)]_vars

\* a chain has run its second session and chose 20 minutes for a usage of 80 %
\* or more at its end
C38_Witness ==
    \E c \in Chains :
       /\ chains.run[c].pc = "scheduled" /\ chains.run[c].sessions = 2
       /\ chains.run[c].usage >= 80 /\ chains.run[c].delay = 20
       /\ isRunning

====
